---------------------------- MODULE Spec2Model ----------------------------
(***************************************************************************)
(* DiskSight backend core: the scan registry and its worker threads        *)
(* (commands.rs, state.rs), the scan engine (engine.rs) and the safety     *)
(* classifier with the smart-delete pipeline (delete.rs, commands.rs).     *)
(*                                                                         *)
(* Strings of the program are sequences of one-character strings, so that  *)
(* lowercasing, splitting and extension extraction are computed and not    *)
(* assumed.  A scanned path is the sequence of its components below (and   *)
(* including) the root; a path handed to the deleter is a character        *)
(* string, as the command receives it.                                     *)
(***************************************************************************)
EXTENDS Integers, Sequences, FiniteSets, TLC

VARIABLES
    \* ---- scan registry (state.rs: AppState) and its environment
    active_scans,    \* AppState.active_scans: the scan ids with an active entry
    cancel_flag,     \* the Arc<AtomicBool> of each scan's ScanState
    results,         \* AppState.results: scan id -> ScanResult
    run,             \* per scan: the worker's position and run_scan's locals
    events,          \* per scan id: the scan://... events emitted so far, in order
    cancel_when,     \* history: where the worker stood, and how many entries it had
                     \* visited, when cancel_scan first returned true
    \* ---- smart delete (delete.rs, commands.rs)
    fs,              \* the paths that exist on disk
    fs_before,       \* history: the disk as the last delete command found it
    platform,        \* the build target: decides how Path parses a string
    trash_ok,        \* whether the OS trash accepts a deletion
    locked,          \* paths whose unlink / rmdir fails
    delete_events,   \* the delete://... events emitted by the last command
    \* ---- both
    reply            \* the last command (or library call) and what it returned

vars == << active_scans, cancel_flag, results, run, events, cancel_when,
           fs, fs_before, platform, trash_ok, locked, delete_events, reply >>

scanVars == << active_scans, cancel_flag, results, run, events, cancel_when >>

deleteVars == << fs, fs_before, platform, trash_ok, locked, delete_events >>

(* Option<T>: None is the empty sequence, Some(x) the one-element sequence. *)
None == << >>

Some(x) == << x >>

IsSome(o) == o # << >>

Unwrap(o) == o[1]

Min(a, b) == IF a < b THEN a ELSE b

RECURSIVE SumSeq(_)
SumSeq(s) == IF s = << >> THEN 0 ELSE Head(s) + SumSeq(Tail(s))

(* The lists of at most n distinct elements of S. *)
RECURSIVE SeqsUpTo(_, _)
SeqsUpTo(S, n) ==
    IF n = 0 THEN { << >> }
    ELSE LET shorter == SeqsUpTo(S, n - 1)
         IN  shorter \cup
             UNION { { Append(s, x) : x \in { y \in S : \A i \in 1..Len(s) : s[i] # y } }
                     : s \in shorter }

(***************************************************************************)
(* Bounds of the model and constants of the program                        *)
(***************************************************************************)
(* The longest list of paths handed to bulk_smart_delete. *)
MaxBulkPaths == 2

(* The number of scans submitted or run in one behaviour. *)
MaxScans == 1

(* The width given to u64 sizes: u64::MAX is 2^U64Bits - 1 in the model, so *)
(* that saturating_add saturates on sizes the model can hold.               *)
U64Bits == 4

(* delete.rs 165: a protected segment counts only in a path of at most 3 pieces. *)
PROTECTED_MAX_PARTS == 3

(* engine.rs 167: the cancel flag is polled every 5000 visited entries; the *)
(* model polls every CANCEL_POLL_EVERY entries, a period its trees reach.   *)
CANCEL_POLL_EVERY == 5

(* engine.rs 245: progress and partial updates are considered every 2000   *)
(* entries; the model considers them every EMIT_CHECK_EVERY entries.        *)
EMIT_CHECK_EVERY == 2

(* engine.rs 20: a batch holds 10000 deltas; in the model MAX_PARTIAL_BATCH, *)
(* fewer than the nodes of its trees.                                       *)
MAX_PARTIAL_BATCH == 2

(* The clock ticks once per 50 ms. engine.rs 18: PROGRESS_INTERVAL is 50 ms. *)
PROGRESS_INTERVAL == 1

(* engine.rs 19: PARTIAL_INTERVAL is 100 ms. *)
PARTIAL_INTERVAL == 2

(* The most ticks that pass between two emission checks of the walk. *)
MaxElapsed == 2

(* delete.rs 216: the heuristic asks for a length above 100 MiB; lengths   *)
(* are counted in units of 100 MiB.                                        *)
HEURISTIC_SIZE == 1

(* delete.rs 216: and for an age above 30 days; the system clock is read   *)
(* in units of 30 days.                                                    *)
HEURISTIC_AGE == 1

(* The latest reading of the system clock. *)
MaxClock == 2
(***************************************************************************)
(* Characters and strings                                                  *)
(***************************************************************************)
UpperChars ==
    << "A","B","C","D","E","F","G","H","I","J","K","L","M",
       "N","O","P","Q","R","S","T","U","V","W","X","Y","Z" >>

LowerChars ==
    << "a","b","c","d","e","f","g","h","i","j","k","l","m",
       "n","o","p","q","r","s","t","u","v","w","x","y","z" >>

(* char::to_lowercase / to_ascii_lowercase on the model's alphabet. *)
to_lowercase_char(c) ==
    IF \E i \in 1..Len(UpperChars) : UpperChars[i] = c
    THEN LowerChars[CHOOSE i \in 1..Len(UpperChars) : UpperChars[i] = c]
    ELSE c

(* str::to_lowercase *)
to_lowercase(s) == [i \in 1..Len(s) |-> to_lowercase_char(s[i])]

(* str::eq_ignore_ascii_case *)
eq_ignore_ascii_case(a, b) == to_lowercase(a) = to_lowercase(b)

(* str::contains(&str) *)
contains(s, pat) ==
    \E i \in 0..(Len(s) - Len(pat)) : SubSeq(s, i + 1, i + Len(pat)) = pat

(* str::split(chars): the pieces between separators, empty pieces kept. *)
RECURSIVE split(_, _)
split(s, seps) ==
    IF \A i \in 1..Len(s) : s[i] \notin seps
    THEN << s >>
    ELSE LET k == CHOOSE i \in 1..Len(s) :
                      s[i] \in seps /\ \A j \in 1..(i - 1) : s[j] \notin seps
         IN  << SubSeq(s, 1, k - 1) >> \o split(SubSeq(s, k + 1, Len(s)), seps)

SelectNonEmpty(parts) == SelectSeq(parts, LAMBDA p : p # << >> /\ p # << "." >>)

(***************************************************************************)
(* std::path::Path on a character string                                   *)
(***************************************************************************)
Platforms == { "windows", "unix" }

(* The separators Path recognises on each target. *)
PathSeparators(plat) == IF plat = "windows" THEN { "/", "\\" } ELSE { "/" }

(* A drive prefix such as C: is a Prefix component on Windows only. *)
IsDrivePrefix(comp, plat) ==
    plat = "windows" /\ Len(comp) = 2 /\ comp[2] = ":"

(* Path::components, Normal and ParentDir components only: empty pieces and *)
(* "." are dropped, a leading drive prefix is not a Normal component.       *)
components(path, plat) ==
    LET pieces == SelectNonEmpty(split(path, PathSeparators(plat)))
    IN  IF pieces # << >> /\ IsDrivePrefix(pieces[1], plat)
        THEN Tail(pieces) ELSE pieces

(* Path::file_name: the last component, unless the path ends in "..". *)
file_name(path, plat) ==
    LET comps == components(path, plat)
    IN  IF comps = << >> THEN None
        ELSE IF comps[Len(comps)] = << ".", "." >> THEN None
        ELSE Some(comps[Len(comps)])

(* Path::extension on a file name: the part after the last dot; none when   *)
(* there is no dot or the only dot is the first character.                  *)
extension_of_name(name) ==
    LET dots == { i \in 1..Len(name) : name[i] = "." }
    IN  IF dots = {} THEN None
        ELSE LET last == CHOOSE i \in dots : \A j \in dots : j <= i
             IN  IF last = 1 THEN None
                 ELSE Some(SubSeq(name, last + 1, Len(name)))

(* Path::extension *)
extension(path, plat) ==
    LET name == file_name(path, plat)
    IN  IF IsSome(name) THEN extension_of_name(Unwrap(name)) ELSE None

(* delete.rs: extensions that are deleted without confirmation. *)
AUTO_DELETE_EXTENSIONS ==
    { <<"t","m","p">>, <<"t","e","m","p">>, <<"b","a","k">>, <<"o","l","d">>, <<"s","w","p">>
     , <<"s","w","o">>, <<"l","o","g">>, <<"l","o","g","s">>, <<"c","a","c","h","e">>
     , <<"t","h","u","m","b","s",".","d","b">>, <<"d","e","s","k","t","o","p",".","i","n","i">>
     , <<"e","h","t","h","u","m","b","s",".","d","b">>
     , <<"e","h","t","h","u","m","b","s","_","v","i","s","t","a",".","d","b">>
     , <<"d","s","_","s","t","o","r","e">>, <<"t","h","u","m","b">>
     , <<"t","h","u","m","b","c","a","c","h","e">>, <<"p","d","b">>, <<"i","l","k">>
     , <<"o","b","j">>, <<"o">>, <<"a">>, <<"l","i","b">>, <<"e","x","p">>, <<"p","y","c">>
     , <<"p","y","o">>, <<"_","_","p","y","c","a","c","h","e","_","_">>, <<"b","a","k","~">>
     , <<"~">> }

(* delete.rs: file names (lowercased, exact) deleted without confirmation. *)
AUTO_DELETE_NAMES ==
    { <<"t","h","u","m","b","s",".","d","b">>, <<"d","e","s","k","t","o","p",".","i","n","i">>
     , <<"e","h","t","h","u","m","b","s",".","d","b">>
     , <<"e","h","t","h","u","m","b","s","_","v","i","s","t","a",".","d","b">>
     , <<".","d","s","_","s","t","o","r","e">>
     , <<"n","p","m","-","d","e","b","u","g",".","l","o","g">>
     , <<"y","a","r","n","-","e","r","r","o","r",".","l","o","g">>
     , <<"y","a","r","n","-","d","e","b","u","g",".","l","o","g">>, <<".","n","p","m","r","c">>
     , <<".","y","a","r","n","r","c">>, <<"d","e","b","u","g",".","l","o","g">>
     , <<"e","r","r","o","r",".","l","o","g">>, <<"a","c","c","e","s","s",".","l","o","g">> }

(* delete.rs: folder names deleted without confirmation. *)
AUTO_DELETE_FOLDERS ==
    { <<".","c","a","c","h","e">>, <<"_","_","p","y","c","a","c","h","e","_","_">>
     , <<".","p","y","t","e","s","t","_","c","a","c","h","e">>
     , <<".","m","y","p","y","_","c","a","c","h","e">>
     , <<"n","o","d","e","_","m","o","d","u","l","e","s">>, <<".","n","p","m">>
     , <<".","y","a","r","n">>, <<".","p","n","p","m">>, <<"d","i","s","t">>
     , <<"b","u","i","l","d">>, <<"o","u","t">>, <<"t","a","r","g","e","t">>
     , <<".","n","e","x","t">>, <<".","n","u","x","t">>, <<".","t","u","r","b","o">>
     , <<".","i","d","e","a">>, <<".","v","s","c","o","d","e">>, <<".","v","s">>
     , <<".","g","i","t">>, <<".","s","v","n">>, <<".","h","g">>, <<"t","m","p">>
     , <<"t","e","m","p">>, <<".","t","m","p">>, <<".","t","e","m","p">>, <<"l","o","g","s">>
     , <<"l","o","g">> }

(* delete.rs: path segments that are never deleted. *)
PROTECTED_PATHS ==
    { <<"w","i","n","d","o","w","s">>, <<"s","y","s","t","e","m","3","2">>
     , <<"s","y","s","w","o","w","6","4">>, <<"p","r","o","g","r","a","m"," ","f","i","l","e","s">>
     , <<"p","r","o","g","r","a","m"," ","f","i","l","e","s"," ","(","x","8","6",")">>
     , <<"p","r","o","g","r","a","m","d","a","t","a">>, <<"u","s","e","r","s">>
     , <<"d","o","c","u","m","e","n","t","s">>, <<"p","i","c","t","u","r","e","s">>
     , <<"v","i","d","e","o","s">>, <<"m","u","s","i","c">>, <<"d","o","w","n","l","o","a","d","s">>
     , <<"d","e","s","k","t","o","p">>, <<"a","p","p","d","a","t","a">>, <<"b","o","o","t">>
     , <<"r","e","c","o","v","e","r","y">>
     , <<"s","y","s","t","e","m"," ","v","o","l","u","m","e"," ","i","n","f","o","r","m","a","t","i","o","n">> }

(* delete.rs: extensions that require confirmation. *)
IMPORTANT_EXTENSIONS ==
    { <<"d","o","c">>, <<"d","o","c","x">>, <<"p","d","f">>, <<"t","x","t">>, <<"r","t","f">>
     , <<"o","d","t">>, <<"x","l","s">>, <<"x","l","s","x">>, <<"p","p","t">>, <<"p","p","t","x">>
     , <<"m","p","4">>, <<"m","k","v">>, <<"a","v","i">>, <<"m","o","v">>, <<"w","m","v">>
     , <<"f","l","v">>, <<"w","e","b","m">>, <<"m","p","3">>, <<"w","a","v">>, <<"f","l","a","c">>
     , <<"a","a","c">>, <<"o","g","g">>, <<"m","4","a">>, <<"w","m","a">>, <<"j","p","g">>
     , <<"j","p","e","g">>, <<"p","n","g">>, <<"g","i","f">>, <<"b","m","p">>, <<"s","v","g">>
     , <<"w","e","b","p">>, <<"i","c","o">>, <<"t","i","f","f">>, <<"r","a","w">>, <<"j","s">>
     , <<"t","s">>, <<"j","s","x">>, <<"t","s","x">>, <<"p","y">>, <<"r","s">>, <<"g","o">>
     , <<"j","a","v","a">>, <<"c","p","p">>, <<"c">>, <<"c","s">>, <<"r","b">>, <<"p","h","p">>
     , <<"s","w","i","f","t">>, <<"k","t">>, <<"h","t","m","l">>, <<"c","s","s">>
     , <<"s","c","s","s">>, <<"s","a","s","s">>, <<"l","e","s","s">>, <<"j","s","o","n">>
     , <<"x","m","l">>, <<"y","a","m","l">>, <<"y","m","l">>, <<"t","o","m","l">>, <<"i","n","i">>
     , <<"c","f","g">>, <<"c","o","n","f">>, <<"z","i","p">>, <<"r","a","r">>, <<"7","z">>
     , <<"t","a","r">>, <<"g","z">>, <<"b","z","2">>, <<"x","z">>, <<"d","b">>
     , <<"s","q","l","i","t","e">>, <<"s","q","l">>, <<"m","d","b">>, <<"e","x","e">>
     , <<"m","s","i">>, <<"a","p","p">>, <<"d","m","g">>, <<"d","e","b">>, <<"r","p","m">> }

(* engine.rs: directory names the walker filter prunes. *)
SKIP_DIRS ==
    { <<"$","R","e","c","y","c","l","e",".","B","i","n">>
     , <<"$","R","E","C","Y","C","L","E",".","B","I","N">>
     , <<"S","y","s","t","e","m"," ","V","o","l","u","m","e"," ","I","n","f","o","r","m","a","t","i","o","n">>
     , <<"R","e","c","o","v","e","r","y">>, <<"$","W","i","n","R","E","A","g","e","n","t">>
     , <<"W","i","n","d","o","w","s",".","o","l","d">>, <<"P","e","r","f","L","o","g","s">>
     , <<"M","S","O","C","a","c","h","e">>, <<"C","o","n","f","i","g",".","M","s","i">>
     , <<"W","i","n","d","o","w","s">>, <<"W","i","n","S","x","S">>
     , <<"n","o","d","e","_","m","o","d","u","l","e","s">>, <<".","g","i","t">>, <<".","s","v","n">>
     , <<"_","_","p","y","c","a","c","h","e","_","_">>, <<".","c","a","c","h","e">>
     , <<".","n","p","m">>, <<".","y","a","r","n">>, <<"v","e","n","d","o","r">>
     , <<".","n","u","g","e","t">>, <<".","c","a","r","g","o">>, <<".","r","u","s","t","u","p">>
     , <<"o","b","j">>, <<"D","e","b","u","g">>, <<"R","e","l","e","a","s","e">>
     , <<".","n","e","x","t">>, <<".","t","u","r","b","o">>, <<"v","e","n","v">>
     , <<".","v","e","n","v">>, <<"e","n","v">> }

(***************************************************************************)
(* Safety classifier (delete.rs)                                           *)
(***************************************************************************)
AutoDelete == "auto_delete"

ConfirmRequired == "confirm_required"

Protected == "protected"

SafetyLevel == { AutoDelete, ConfirmRequired, Protected }

(* The protected test without the count of the pieces. *)
is_protected_path_any_depth(path) ==
    \E protected \in PROTECTED_PATHS :
        \E i \in 1..Len(split(to_lowercase(path), { "/", "\\" })) :
            split(to_lowercase(path), { "/", "\\" })[i] = protected

(* delete.rs 161-169: some protected name occurs in the lowercased path,   *)
(* the path has at most three pieces and one piece is that name.           *)
is_protected_path(path) ==
    LET path_str == to_lowercase(path)
        parts    == split(path_str, { "/", "\\" })
    IN  \E protected \in PROTECTED_PATHS :
            /\ contains(path_str, protected)
            /\ Len(parts) <= PROTECTED_MAX_PARTS
            /\ \E i \in 1..Len(parts) : parts[i] = protected

(* The heuristic taking a large old file of unknown type for junk. *)
heuristic_level_junk(meta) ==
    IF IsSome(meta) /\ Unwrap(meta).large /\ Unwrap(meta).old
    THEN AutoDelete
    ELSE ConfirmRequired

(* delete.rs 211-223: the size and age heuristic.  meta is None when the   *)
(* metadata cannot be read, else Some([large |-> size > 100 MiB,           *)
(* old |-> age > 30 days]).  Both of its outcomes are ConfirmRequired.     *)
heuristic_level(meta) ==
    IF IsSome(meta) /\ Unwrap(meta).large /\ Unwrap(meta).old
    THEN ConfirmRequired
    ELSE ConfirmRequired

(* get_safety_level looking at the extension before the name. *)
get_safety_level_extension_first(path, is_dir, meta, plat) ==
    IF is_protected_path(path) THEN Protected
    ELSE IF IsSome(extension(path, plat))
            /\ to_lowercase(Unwrap(extension(path, plat))) \in AUTO_DELETE_EXTENSIONS
    THEN AutoDelete
    ELSE IF IsSome(extension(path, plat))
            /\ to_lowercase(Unwrap(extension(path, plat))) \in IMPORTANT_EXTENSIONS
    THEN ConfirmRequired
    ELSE IF IsSome(file_name(path, plat))
            /\ to_lowercase(Unwrap(file_name(path, plat))) \in AUTO_DELETE_NAMES
    THEN AutoDelete
    ELSE IF IsSome(file_name(path, plat)) /\ is_dir
            /\ to_lowercase(Unwrap(file_name(path, plat))) \in AUTO_DELETE_FOLDERS
    THEN AutoDelete
    ELSE heuristic_level(meta)

(* delete.rs 157-227: get_safety_level.  is_dir is what path.is_dir()      *)
(* answers, meta what path.metadata() answers.                             *)
get_safety_level(path, is_dir, meta, plat) ==
    LET name == file_name(path, plat)
        name_lower == IF IsSome(name) THEN Some(to_lowercase(Unwrap(name))) ELSE None
        ext == extension(path, plat)
        ext_lower == IF IsSome(ext) THEN Some(to_lowercase(Unwrap(ext))) ELSE None
    IN  IF is_protected_path(path) THEN Protected
        ELSE IF IsSome(name_lower) /\ Unwrap(name_lower) \in AUTO_DELETE_NAMES
             THEN AutoDelete
        ELSE IF IsSome(name_lower) /\ is_dir /\ Unwrap(name_lower) \in AUTO_DELETE_FOLDERS
             THEN AutoDelete
        ELSE IF IsSome(ext_lower) /\ Unwrap(ext_lower) \in AUTO_DELETE_EXTENSIONS
             THEN AutoDelete
        ELSE IF IsSome(ext_lower) /\ Unwrap(ext_lower) \in IMPORTANT_EXTENSIONS
             THEN ConfirmRequired
        ELSE heuristic_level(meta)

(***************************************************************************)
(* The disk the deleter works on                                           *)
(***************************************************************************)
P_boot == << "/","b","o","o","t" >>

P_t == << "/","t" >>

P_t_a == << "/","t","/","a",".","t","m","p" >>

P_t_dist == << "/","t","/","d","i","s","t" >>

P_t_dist_x == << "/","t","/","d","i","s","t","/","x",".","j","s" >>

P_thumbs == << "C",":","\\","x","\\","T","h","u","m","b","s",".","d","b" >>

P_gone == << "/","g","o","n","e" >>

FsFile(size, large, old) ==
    [ is_dir |-> FALSE, size |-> size, large |-> large, old |-> old, children |-> << >> ]

FsDir(children) ==
    [ is_dir |-> TRUE, size |-> 0, large |-> FALSE, old |-> FALSE, children |-> children ]

(* Every path the model's disk can hold, with its kind, its length in      *)
(* bytes, what the age heuristic sees, and its read_dir order.             *)
FsTree ==
    (P_boot :> FsDir(<< >>)) @@
    (P_t :> FsDir(<< P_t_a, P_t_dist >>)) @@
    (P_t_a :> FsFile(2, TRUE, TRUE)) @@
    (P_t_dist :> FsDir(<< P_t_dist_x >>)) @@
    (P_t_dist_x :> FsFile(3, FALSE, TRUE)) @@
    (P_thumbs :> FsFile(1, FALSE, FALSE))

FsPaths == DOMAIN FsTree

(* The paths a command may be handed: those of the disk and a missing one. *)
DeletePaths == FsPaths \cup { P_gone }

(* The paths whose removal the operating system may refuse. *)
Lockable == { P_t_dist_x }

(* Path::exists, Path::is_dir, Path::is_file, Path::metadata on disk d. *)
path_exists(path, d) == path \in d

path_is_dir(path, d) == path \in d /\ FsTree[path].is_dir

path_is_file(path, d) == path \in d /\ ~FsTree[path].is_dir

path_metadata(path, d) ==
    IF path \in d
    THEN Some([ large |-> FsTree[path].large, old |-> FsTree[path].old ])
    ELSE None

(* What Path::metadata can answer to the age heuristic. *)
MetaValues ==
    { None } \cup { Some([ large |-> l, old |-> o ]) : l \in BOOLEAN, o \in BOOLEAN }

(* get_safety_level on every input the deleter can hand it, computed once. *)
SafetyTable ==
    [ plat \in Platforms |-> [ path \in DeletePaths |-> [ is_dir \in BOOLEAN |->
        [ meta \in MetaValues |-> get_safety_level(path, is_dir, meta, plat) ] ] ] ]

(* get_safety_level as the deleter calls it: on a path of disk d. *)
safety_level_on(path, d) ==
    SafetyTable[platform][path][path_is_dir(path, d)][path_metadata(path, d)]

(* fs::read_dir: the entries of a directory that still exist, in order. *)
read_dir(path, d) == SelectSeq(FsTree[path].children, LAMBDA c : c \in d)

(* A path and everything below it. *)
RECURSIVE Subtree(_)
Subtree(path) ==
    { path } \cup
    UNION { Subtree(FsTree[path].children[i]) : i \in 1..Len(FsTree[path].children) }

(* delete.rs 254-268: calculate_dir_size. *)
RECURSIVE calculate_dir_size(_, _)
calculate_dir_size(path, d) ==
    IF path_is_dir(path, d)
    THEN LET entries == read_dir(path, d)
         IN  SumSeq([ i \in 1..Len(entries) |->
                        IF path_is_dir(entries[i], d)
                        THEN calculate_dir_size(entries[i], d)
                        ELSE FsTree[entries[i]].size ])
    ELSE 0

IoError(path) == [ msg |-> "io error", path |-> path ]

(* A removal's outcome: the disk after it, Ok((files, folders)) or Err(e). *)
DelOk(d, files, folders) ==
    [ ok |-> TRUE, disk |-> d, files |-> files, folders |-> folders, err |-> None ]

DelErr(d, e) ==
    [ ok |-> FALSE, disk |-> d, files |-> 0, folders |-> 0, err |-> Some(e) ]

(* delete.rs 320-330: delete_single_file: trash first, then unlink. *)
delete_single_file(path, d) ==
    IF trash_ok THEN DelOk(d \ { path }, 1, 0)
    ELSE IF path \in locked THEN DelErr(d, IoError(path))
    ELSE DelOk(d \ { path }, 1, 0)

(* delete.rs 333-366: delete_folder_recursive_internal: trash the folder   *)
(* as a unit, else remove its entries one by one, stopping at the first    *)
(* failure, and then the folder itself.                                    *)
RECURSIVE delete_folder_recursive_internal(_, _)
RECURSIVE delete_folder_entries(_, _, _, _, _)
delete_folder_entries(entries, i, d, files, folders) ==
    IF i > Len(entries) THEN DelOk(d, files, folders)
    ELSE IF path_is_dir(entries[i], d)
         THEN LET sub == delete_folder_recursive_internal(entries[i], d)
              IN  IF ~sub.ok THEN sub
                  ELSE delete_folder_entries(entries, i + 1, sub.disk,
                                             files + sub.files, folders + sub.folders)
         ELSE IF entries[i] \in locked THEN DelErr(d, IoError(entries[i]))
              ELSE delete_folder_entries(entries, i + 1, d \ { entries[i] },
                                         files + 1, folders)

delete_folder_recursive_internal(path, d) ==
    IF trash_ok THEN DelOk(d \ Subtree(path), 0, 1)
    ELSE IF ~path_is_dir(path, d) THEN DelOk(d, 0, 0)
    ELSE LET inner == delete_folder_entries(read_dir(path, d), 1, d, 0, 0)
         IN  IF ~inner.ok THEN inner
             ELSE IF path \in locked THEN DelErr(inner.disk, IoError(path))
             ELSE DelOk(inner.disk \ { path }, inner.files, inner.folders + 1)

(***************************************************************************)
(* Smart delete (delete.rs, commands.rs)                                   *)
(***************************************************************************)
Err(e) == [ ok |-> FALSE, err |-> e ]

Ok(v) == [ ok |-> TRUE, result |-> v ]

ErrMsg(msg, path) == [ msg |-> msg, path |-> path ]

DeletedEvent(path, bytes_freed, was_auto) ==
    [ event |-> "delete://deleted", path |-> path,
      bytes_freed |-> bytes_freed, was_auto |-> was_auto ]

DeleteFailedEvent(path, reason) ==
    [ event |-> "delete://failed", path |-> path, reason |-> reason ]

(* delete.rs 279: the guard in front of the removal in smart_delete_file. *)
smart_delete_file_refuses(safety, force) == safety = Protected /\ ~force

(* delete.rs 292-316: the DeleteResult smart_delete_file builds from what   *)
(* the removal returned.                                                   *)
smart_delete_file_result(result, size, was_auto_delete) ==
    IF result.ok
    THEN [ ret |-> Ok([ success |-> TRUE, bytes_freed |-> size,
                        files_deleted |-> result.files,
                        folders_deleted |-> result.folders,
                        errors |-> << >>,
                        was_auto_delete |-> was_auto_delete ]),
           disk |-> result.disk ]
    ELSE [ ret |-> Ok([ success |-> FALSE, bytes_freed |-> 0,
                        files_deleted |-> 0, folders_deleted |-> 0,
                        errors |-> << Unwrap(result.err) >>,
                        was_auto_delete |-> was_auto_delete ]),
           disk |-> result.disk ]

(* delete.rs 279-296: smart_delete_file once the path is classified: the   *)
(* guard, the size measured before the removal, the removal.               *)
smart_delete_file_classified(path, force, d, safety_level) ==
    IF smart_delete_file_refuses(safety_level, force)
    THEN [ ret |-> Err(ErrMsg("Cannot delete protected system file", path)),
           disk |-> d ]
    ELSE smart_delete_file_result(
             IF path_is_dir(path, d)
             THEN delete_folder_recursive_internal(path, d)
             ELSE delete_single_file(path, d),
             IF path_is_file(path, d) THEN FsTree[path].size
             ELSE calculate_dir_size(path, d),
             safety_level = AutoDelete)

(* delete.rs 271-317: smart_delete_file on disk d: what it returns and the *)
(* disk it leaves.                                                         *)
smart_delete_file(path, force, d) ==
    IF ~path_exists(path, d)
    THEN [ ret |-> Err(ErrMsg("Path does not exist", path)), disk |-> d ]
    ELSE smart_delete_file_classified(path, force, d, safety_level_on(path, d))

(* The protected guard with the force escape of delete.rs 279 copied in. *)
smart_delete_refuses_protected_unless_forced(safety, force) ==
    safety = Protected /\ ~force

(* commands.rs 287: smart_delete never lets a protected path through. *)
smart_delete_refuses_protected(safety, force) == safety = Protected

(* The confirmation guard with the force test inverted. *)
smart_delete_needs_confirmation_inverted(safety, force) ==
    safety = ConfirmRequired /\ force

(* commands.rs 296: a confirm-required path needs force. *)
smart_delete_needs_confirmation(safety, force) == safety = ConfirmRequired /\ ~force

(* commands.rs 288-291: what smart_delete emits when it refuses a protected path. *)
smart_delete_protected_events(path) ==
    << DeleteFailedEvent(path, "Protected system file cannot be deleted") >>

(* commands.rs 297: what smart_delete emits when it asks for confirmation. *)
smart_delete_confirmation_events(path) == << >>

(* commands.rs 302-326: what smart_delete emits and returns after          *)
(* smart_delete_file returned out.                                         *)
smart_delete_report(path, out) ==
    IF out.ret.ok
    THEN IF out.ret.result.success
         THEN [ ret |-> out.ret,
                emitted |-> << DeletedEvent(path, out.ret.result.bytes_freed,
                                            out.ret.result.was_auto_delete) >>,
                disk |-> out.disk ]
         ELSE [ ret |-> out.ret,
                emitted |-> [ i \in 1..Len(out.ret.result.errors) |->
                                DeleteFailedEvent(path, out.ret.result.errors[i]) ],
                disk |-> out.disk ]
    ELSE [ ret |-> out.ret,
           emitted |-> << DeleteFailedEvent(path, out.ret.err) >>,
           disk |-> out.disk ]

(* commands.rs 287-300: smart_delete once the path is classified. *)
smart_delete_classified(path, force, d, safety) ==
    IF smart_delete_refuses_protected(safety, force)
    THEN [ ret |-> Err(ErrMsg("Cannot delete protected system file", path)),
           emitted |-> smart_delete_protected_events(path), disk |-> d ]
    ELSE IF smart_delete_needs_confirmation(safety, force)
    THEN [ ret |-> Err(ErrMsg("Confirmation required for this file type", path)),
           emitted |-> smart_delete_confirmation_events(path), disk |-> d ]
    ELSE smart_delete_report(path, smart_delete_file(path, force, d))

(* commands.rs 277-327: the smart_delete command: what it returns, the     *)
(* events it emits and the disk it leaves.                                 *)
smart_delete(path, force, d) ==
    IF ~path_exists(path, d)
    THEN [ ret |-> Err(ErrMsg("Path does not exist", path)), emitted |-> << >>, disk |-> d ]
    ELSE smart_delete_classified(path, force, d, safety_level_on(path, d))

(* commands.rs 348: bulk_smart_delete skips a protected path. *)
bulk_refuses_protected(safety, force) == safety = Protected

(* commands.rs 357: bulk_smart_delete skips a confirm-required path without force. *)
bulk_needs_confirmation(safety, force) == safety = ConfirmRequired /\ ~force

(* The protected branch of the bulk loop with its emit left out. *)
bulk_protected_events_silent(path) == << >>

(* commands.rs 350-353: what the bulk loop emits when it skips a protected path. *)
bulk_protected_events(path) == << DeleteFailedEvent(path, "Protected system file") >>

(* commands.rs 358-360: what the bulk loop emits when it asks for confirmation. *)
bulk_confirmation_events(path) == << >>

(* The accumulators of bulk_smart_delete's loop (commands.rs 332-336). *)
BulkStart(d) ==
    [ disk |-> d, total_bytes |-> 0, total_files |-> 0, total_folders |-> 0,
      errors |-> << >>, all_auto |-> TRUE, emitted |-> << >> ]

(* commands.rs 367-389: the accumulators after smart_delete_file returned  *)
(* out for path_str.                                                       *)
bulk_step_report(acc, path_str, all_auto, out) ==
    IF out.ret.ok
    THEN [ disk |-> out.disk,
           total_bytes |-> acc.total_bytes + out.ret.result.bytes_freed,
           total_files |-> acc.total_files + out.ret.result.files_deleted,
           total_folders |-> acc.total_folders + out.ret.result.folders_deleted,
           errors |-> acc.errors \o out.ret.result.errors,
           all_auto |-> all_auto,
           emitted |->
               IF out.ret.result.success
               THEN Append(acc.emitted,
                           DeletedEvent(path_str, out.ret.result.bytes_freed,
                                        out.ret.result.was_auto_delete))
               ELSE acc.emitted ]
    ELSE [ acc EXCEPT !.disk = out.disk,
                      !.all_auto = all_auto,
                      !.errors = Append(@, out.ret.err),
                      !.emitted = Append(@, DeleteFailedEvent(path_str, out.ret.err)) ]

(* all_auto left as it was by a path that needed confirmation. *)
bulk_all_auto_kept(all_auto, safety) == all_auto

(* commands.rs 363-365: a confirm-required path that is deleted clears all_auto. *)
bulk_all_auto(all_auto, safety) == IF safety = ConfirmRequired THEN FALSE ELSE all_auto

(* commands.rs 348-367: one iteration once the path is classified. *)
bulk_step_classified(acc, path_str, force, safety) ==
    IF bulk_refuses_protected(safety, force)
    THEN [ acc EXCEPT !.errors = Append(@, ErrMsg("Skipped protected", path_str)),
                      !.emitted = @ \o bulk_protected_events(path_str) ]
    ELSE IF bulk_needs_confirmation(safety, force)
    THEN [ acc EXCEPT !.errors = Append(@, ErrMsg("Requires confirmation", path_str)),
                      !.emitted = @ \o bulk_confirmation_events(path_str),
                      !.all_auto = FALSE ]
    ELSE bulk_step_report(acc, path_str, bulk_all_auto(acc.all_auto, safety),
                          smart_delete_file(path_str, force, acc.disk))

(* commands.rs 338-390: one iteration of bulk_smart_delete's loop. *)
bulk_step(acc, path_str, force) ==
    IF ~path_exists(path_str, acc.disk)
    THEN [ acc EXCEPT !.errors = Append(@, ErrMsg("Path does not exist", path_str)) ]
    ELSE bulk_step_classified(acc, path_str, force,
                              safety_level_on(path_str, acc.disk))

(* The loop left at the first path that adds an error. *)
RECURSIVE bulk_loop_aborting(_, _, _)
bulk_loop_aborting(acc, paths, force) ==
    IF paths = << >> THEN acc
    ELSE IF Len(bulk_step(acc, Head(paths), force).errors) > Len(acc.errors)
    THEN bulk_step(acc, Head(paths), force)
    ELSE bulk_loop_aborting(bulk_step(acc, Head(paths), force), Tail(paths), force)

RECURSIVE bulk_loop(_, _, _)
bulk_loop(acc, paths, force) ==
    IF paths = << >> THEN acc
    ELSE bulk_loop(bulk_step(acc, Head(paths), force), Tail(paths), force)

(* commands.rs 392-399: the DeleteResult of the whole request. *)
bulk_result(acc) ==
    [ ret |-> [ success |-> acc.errors = << >>,
                bytes_freed |-> acc.total_bytes,
                files_deleted |-> acc.total_files,
                folders_deleted |-> acc.total_folders,
                errors |-> acc.errors,
                was_auto_delete |-> acc.all_auto ],
      emitted |-> acc.emitted,
      disk |-> acc.disk ]

(* commands.rs 331-400: the bulk_smart_delete command. *)
bulk_smart_delete(paths, force, d) == bulk_result(bulk_loop(BulkStart(d), paths, force))

(***************************************************************************)
(* The disk the scanner walks                                              *)
(***************************************************************************)
U64_MAX == 2 ^ U64Bits - 1

(* u64::saturating_add *)
saturating_add(a, b) == Min(a + b, U64_MAX)

(* File and directory names. *)
N_a_txt == << "a", ".", "t", "x", "t" >>

N_b_TXT == << "b", ".", "T", "X", "T" >>

N_noext == << "n", "o", "e", "x", "t" >>

N_c_js == << "c", ".", "j", "s" >>

N_sub == << "s", "u", "b" >>

N_priv == << "p", "r", "i", "v" >>

N_Node_Modules == << "N", "o", "d", "e", "_", "M", "o", "d", "u", "l", "e", "s" >>

N_empty == << "e", "m", "p", "t", "y" >>

N_f_log == << "f", ".", "l", "o", "g" >>

N_gone == << "g", "o", "n", "e" >>

N_nil == << "n", "i", "l" >>

N_dot == << "." >>

N_x == << "x" >>

N_g_tar_GZ == << "g", ".", "t", "a", "r", ".", "G", "Z" >>

N_env == << ".", "e", "n", "v" >>

N_y_none == << "y", ".", "<", "n", "o", "n", "e", ">" >>

N_l == << "l" >>

N_e == << "e" >>

N_d_FE == << "d", "\\xFE" >>

N_d_FF == << "d", "\\xFF" >>

(* The bytes of a name that are not valid UTF-8, and U+FFFD REPLACEMENT    *)
(* CHARACTER, which to_string_lossy puts in their place.                   *)
InvalidBytes == { "\\xFE", "\\xFF" }

REPLACEMENT_CHARACTER == "U+FFFD"

(* OsStr::to_str: None on a name that is not valid UTF-8. *)
to_str(name) ==
    IF \E i \in 1..Len(name) : name[i] \in InvalidBytes THEN None ELSE Some(name)

(* OsStr::to_string_lossy on one component of a path. *)
lossy_name(name) ==
    [ i \in 1..Len(name) |->
        IF name[i] \in InvalidBytes THEN REPLACEMENT_CHARACTER ELSE name[i] ]

(* Path::to_string_lossy: the String the engine keys its maps with. *)
to_string_lossy(path) == [ i \in 1..Len(path) |-> lossy_name(path[i]) ]

(* A regular file of len bytes; a file whose metadata cannot be read; a    *)
(* directory with its entries in read_dir order; a directory read_dir      *)
(* fails on.                                                               *)
File(name, len) ==
    [ name |-> name, is_dir |-> FALSE, len |-> Some(len), readable |-> TRUE,
      entries |-> << >> ]

UnreadableFile(name) ==
    [ name |-> name, is_dir |-> FALSE, len |-> None, readable |-> FALSE,
      entries |-> << >> ]

Dir(name, entries) ==
    [ name |-> name, is_dir |-> TRUE, len |-> None, readable |-> TRUE,
      entries |-> entries ]

UnreadableDir(name) ==
    [ name |-> name, is_dir |-> TRUE, len |-> None, readable |-> FALSE,
      entries |-> << >> ]

(* The lengths a file of the model has: empty, small, and one byte short   *)
(* of u64::MAX.                                                            *)
FileSizes == { 0, 1, U64_MAX - 1 }

SizeLetter(len) == IF len = 0 THEN "z" ELSE IF len = 1 THEN "o" ELSE "m"

(* A project directory: a file, a sub-directory with two files and one     *)
(* whose metadata cannot be read, a skip-listed directory with one file,   *)
(* and a directory that cannot be listed.                                  *)
Project(s1, s2, s3) ==
    Dir(<< "r", SizeLetter(s1), SizeLetter(s2), SizeLetter(s3) >>,
        << File(N_a_txt, s1),
           Dir(N_sub, << File(N_b_TXT, s2), File(N_noext, s3),
                         UnreadableFile(N_c_js) >>),
           Dir(N_Node_Modules, << File(N_c_js, 1) >>),
           UnreadableDir(N_priv) >>)

(* A directory of files named with several dots, with a leading dot only, *)
(* and with the extension "<none>".                                        *)
DottedDir ==
    Dir(N_x, << File(N_g_tar_GZ, 1), File(N_env, 1), File(N_y_none, 1) >>)

(* A directory of two directories whose names differ in a byte that is not *)
(* valid UTF-8, each with one file of the same name.                       *)
LossyDir ==
    Dir(N_l, << Dir(N_d_FE, << File(N_a_txt, 1) >>),
                Dir(N_d_FF, << File(N_a_txt, 1) >>) >>)

(* A directory whose first entry cannot be listed and is followed by a    *)
(* file.                                                                   *)
ErrFirstDir == Dir(N_e, << UnreadableDir(N_priv), File(N_a_txt, 1) >>)

(* The top-level entries of the disk. *)
ScanDisk ==
    { Project(s1, s2, s3) : s1 \in FileSizes, s2 \in FileSizes, s3 \in FileSizes }
    \cup { Dir(N_empty, << >>), File(N_f_log, 1), File(N_nil, 0), DottedDir, LossyDir,
            ErrFirstDir }

(* The root_path strings handed to a scan: every top-level entry, an entry *)
(* written with a trailing ".", and a path that does not exist.            *)
ScanRoots ==
    { << t.name >> : t \in ScanDisk } \cup { << N_empty, N_dot >>, << N_gone >> }

(* The root_path strings submitted through start_scan. *)
SubmitRoots ==
    { << Project(1, 0, U64_MAX - 1).name >>, << N_empty >>, << N_f_log >>, << N_gone >> }

(* Path::canonicalize: "." components removed. *)
canonicalize(path) == SelectSeq(path, LAMBDA comp : comp # N_dot)

(* Path::exists on a canonical path of the disk. *)
RECURSIVE entry_at(_, _)
entry_at(entries, path) ==
    IF path = << >> \/ \A t \in entries : t.name # path[1] THEN None
    ELSE LET t == CHOOSE t \in entries : t.name = path[1]
         IN  IF Len(path) = 1 THEN Some(t)
             ELSE entry_at({ t.entries[i] : i \in 1..Len(t.entries) }, Tail(path))

(* engine.rs 73-86: normalize_root. *)
normalize_root(root_path) ==
    IF IsSome(entry_at(ScanDisk, canonicalize(root_path)))
    THEN Ok(canonicalize(root_path))
    ELSE Err("Root path does not exist")

(* model.rs 6-26: ScanOptions. *)
ScanOptions(max_depth) ==
    [ follow_symlinks |-> FALSE, one_file_system |-> FALSE,
      max_depth |-> max_depth, exclude_patterns |-> << >> ]

ScanOptionsSet == { ScanOptions(None), ScanOptions(Some(1)) }

(* The options submitted through start_scan: the defaults. *)
SubmitOptions == { ScanOptions(None) }

(* engine.rs 69-71: should_skip_dir. *)
should_skip_dir(name) == \E skip \in SKIP_DIRS : eq_ignore_ascii_case(name, skip)

(* engine.rs 151-161: the filter_entry closure: FALSE prunes the entry. *)
filter_entry(entry) ==
    ~(entry.is_dir /\ IsSome(to_str(entry.name)) /\ should_skip_dir(entry.name))

(* What the walker yields: an entry, or an error on the way. *)
WalkOk(path, entry) ==
    [ ok |-> TRUE, path |-> path, is_dir |-> entry.is_dir, len |-> entry.len ]

WalkErr(path) == [ ok |-> FALSE, path |-> path, message |-> "Permission denied" ]

(* engine.rs 135-163: the walker as configured: pre-order, the root always *)
(* yielded, every other entry passed through filter_entry, nothing below   *)
(* max_depth, an error in place of the entries of an unreadable directory. *)
RECURSIVE walk_entry(_, _, _, _)
RECURSIVE walk_entries(_, _, _, _, _)
walk_entry(entry, parent_path, depth, max_depth) ==
    IF depth > 0 /\ ~filter_entry(entry) THEN << >>
    ELSE << WalkOk(Append(parent_path, entry.name), entry) >> \o
         ( IF ~entry.is_dir \/ (IsSome(max_depth) /\ depth >= Unwrap(max_depth))
           THEN << >>
           ELSE IF ~entry.readable
           THEN << WalkErr(Append(parent_path, entry.name)) >>
           ELSE walk_entries(entry.entries, 1, Append(parent_path, entry.name),
                             depth + 1, max_depth) )

walk_entries(entries, i, parent_path, depth, max_depth) ==
    IF i > Len(entries) THEN << >>
    ELSE walk_entry(entries[i], parent_path, depth, max_depth)
         \o walk_entries(entries, i + 1, parent_path, depth, max_depth)

(* The walker's stream for every root that exists and every option set,    *)
(* computed once.                                                          *)
WalkTable ==
    [ root \in { << t.name >> : t \in ScanDisk } |->
        [ options \in ScanOptionsSet |->
            walk_entry(Unwrap(entry_at(ScanDisk, root)), << >>, 0,
                       options.max_depth) ] ]

(***************************************************************************)
(* The scan engine (engine.rs)                                             *)
(***************************************************************************)
NO_EXTENSION_LABEL == << "<", "n", "o", "n", "e", ">" >>

KindFile == "file"

KindDir == "dir"

(* HashMap::get / HashMap::insert on a map kept as a function. *)
map_get(map, key) == IF key \in DOMAIN map THEN Some(map[key]) ELSE None

map_insert(map, key, value) ==
    [ k \in DOMAIN map \cup { key } |-> IF k = key THEN value ELSE map[k] ]

(* model.rs 36-45: TreeNode, created without children. *)
TreeNode(id, parent, name, path, kind, size_bytes, file_ext) ==
    [ id |-> id, parent |-> parent, name |-> name, path |-> path, kind |-> kind,
      size_bytes |-> size_bytes, file_ext |-> file_ext, children |-> << >> ]

(* nodes.insert(id, node): the ids are handed out 1, 2, 3, ... so the node *)
(* map is the sequence of its nodes by id.                                 *)
nodes_insert(nodes, id, node) ==
    IF id = Len(nodes) + 1 THEN Append(nodes, node)
    ELSE [ nodes EXCEPT ![id] = node ]

(* next_node_id reading the counter without adding to it. *)
next_node_id_repeating(counter) == [ id |-> counter, counter |-> counter ]

(* engine.rs 309-311: next_node_id: fetch_add(1) returns the old value. *)
next_node_id(counter) == [ id |-> counter, counter |-> counter + 1 ]

(* The String of a path: its components joined by the separator. *)
RECURSIVE path_string(_)
path_string(path) ==
    IF path = << >> THEN << >>
    ELSE IF Len(path) = 1 THEN path[1]
    ELSE path[1] \o << "/" >> \o path_string(Tail(path))

(* engine.rs 104-108, 324-328, 366-370:                                    *)
(* path.file_name().and_then(|s| s.to_str()).unwrap_or(&path_str)          *)
node_name(path) ==
    IF path = << >> THEN path
    ELSE IF IsSome(to_str(path[Len(path)])) THEN path[Len(path)]
    ELSE path_string(to_string_lossy(path))

(* A lookup that finds no parent. *)
parent_id_for_path_missing(path_map, path) == None

(* engine.rs 391-395: parent_id_for_path. *)
parent_id_for_path(path_map, path) ==
    IF path = << >> THEN None
    ELSE map_get(path_map, to_string_lossy(SubSeq(path, 1, Len(path) - 1)))

(* extract_extension keeping the case of the extension. *)
extract_extension_case_kept(path) ==
    IF path = << >> THEN None ELSE extension_of_name(path[Len(path)])

(* engine.rs 414-418: extract_extension. *)
extract_extension(path) ==
    IF path = << >> \/ ~IsSome(extension_of_name(path[Len(path)])) THEN None
    ELSE IF ~IsSome(to_str(Unwrap(extension_of_name(path[Len(path)])))) THEN None
    ELSE Some(to_lowercase(Unwrap(extension_of_name(path[Len(path)]))))

(* engine.rs 96-133: run_scan's locals once the root node is inserted; now *)
(* is the reading of the monotonic clock, in ticks since the call, and the *)
(* two Instants of l.131-132 are readings of it.                           *)
SeedLocals(root) ==
    [ nodes |-> << TreeNode(next_node_id(1).id, None, node_name(root),
                            to_string_lossy(root), KindDir, 0, None) >>,
      path_map |-> map_insert(<< >>, to_string_lossy(root), next_node_id(1).id),
      changed_nodes |-> { next_node_id(1).id },
      extension_stats |-> << >>,
      node_counter |-> next_node_id(1).counter,
      visited_entries |-> 0,
      visited_bytes_approx |-> 0,
      total_files |-> 0,
      total_dirs |-> 1,
      current_path |-> to_string_lossy(root),
      root_id |-> next_node_id(1).id,
      now |-> 0,
      last_progress_emit |-> 0,
      last_partial_emit |-> 0 ]

(* engine.rs 313-347: ensure_dir_node: the locals after it and the id it returns. *)
ensure_dir_node(l, path) ==
    IF to_string_lossy(path) \in DOMAIN l.path_map
    THEN [ l |-> l, id |-> l.path_map[to_string_lossy(path)] ]
    ELSE [ l |-> [ l EXCEPT
                     !.nodes = nodes_insert(@, next_node_id(l.node_counter).id,
                                 TreeNode(next_node_id(l.node_counter).id,
                                          parent_id_for_path(l.path_map, path),
                                          node_name(path), to_string_lossy(path),
                                          KindDir, 0, None)),
                     !.path_map = map_insert(@, to_string_lossy(path), next_node_id(l.node_counter).id),
                     !.changed_nodes = @ \cup { next_node_id(l.node_counter).id },
                     !.node_counter = next_node_id(l.node_counter).counter ],
           id |-> next_node_id(l.node_counter).id ]

(* engine.rs 349-389: ensure_file_node. *)
ensure_file_node(l, path, parent_id, size) ==
    IF to_string_lossy(path) \in DOMAIN l.path_map
    THEN [ l |-> IF l.path_map[to_string_lossy(path)] \in DOMAIN l.nodes
                 THEN [ l EXCEPT !.nodes[l.path_map[to_string_lossy(path)]].size_bytes = size,
                                 !.changed_nodes = @ \cup { l.path_map[to_string_lossy(path)] } ]
                 ELSE l,
           id |-> l.path_map[to_string_lossy(path)] ]
    ELSE [ l |-> [ l EXCEPT
                     !.nodes = nodes_insert(@, next_node_id(l.node_counter).id,
                                 TreeNode(next_node_id(l.node_counter).id, parent_id,
                                          node_name(path), to_string_lossy(path),
                                          KindFile, size,
                                          extract_extension(path))),
                     !.path_map = map_insert(@, to_string_lossy(path), next_node_id(l.node_counter).id),
                     !.changed_nodes = @ \cup { next_node_id(l.node_counter).id },
                     !.node_counter = next_node_id(l.node_counter).counter ],
           id |-> next_node_id(l.node_counter).id ]

(* The entry is never added to its parent's children. *)
push_child_dropped(nodes, parent_id, id) == nodes

(* engine.rs 183-187, 213-217: parent.children.push(id), when the parent   *)
(* id is known and has a node.                                             *)
push_child(nodes, parent_id, id) ==
    IF IsSome(parent_id) /\ Unwrap(parent_id) \in DOMAIN nodes
    THEN [ nodes EXCEPT ![Unwrap(parent_id)].children = Append(@, id) ]
    ELSE nodes

(* engine.rs 397-412: increment_ancestor_sizes: the node map and the       *)
(* change set after the climb.                                             *)
RECURSIVE increment_ancestor_sizes(_, _, _, _)
increment_ancestor_sizes(nodes, parent_id, size, changed_nodes) ==
    IF IsSome(parent_id) /\ Unwrap(parent_id) \in DOMAIN nodes
    THEN increment_ancestor_sizes(
             [ nodes EXCEPT ![Unwrap(parent_id)].size_bytes = saturating_add(@, size) ],
             nodes[Unwrap(parent_id)].parent, size,
             changed_nodes \cup { Unwrap(parent_id) })
    ELSE [ nodes |-> nodes, changed_nodes |-> changed_nodes ]

(* engine.rs 219-239: the extension statistics after one more file. *)
extension_key(path) ==
    IF IsSome(extract_extension(path)) THEN Unwrap(extract_extension(path))
    ELSE NO_EXTENSION_LABEL

add_extension_stat(extension_stats, ext, size) ==
    IF ext \in DOMAIN extension_stats
    THEN [ extension_stats EXCEPT
             ![ext] = [ ext |-> ext, bytes |-> saturating_add(@.bytes, size),
                        count |-> saturating_add(@.count, 1) ] ]
    ELSE map_insert(extension_stats, ext,
                    [ ext |-> ext, bytes |-> saturating_add(0, size),
                      count |-> saturating_add(0, 1) ])

(* A directory entry counted even when it is the root. *)
dir_entry_linked_counting_root(made, path, root) ==
    [ made.l EXCEPT
        !.total_dirs = @ + 1,
        !.nodes = push_child(@, parent_id_for_path(made.l.path_map, path), made.id) ]

(* engine.rs 176-187: a directory entry. *)
dir_entry_linked(made, path, root) ==
    [ made.l EXCEPT
        !.total_dirs = IF path # root THEN @ + 1 ELSE @,
        !.nodes = push_child(@, parent_id_for_path(made.l.path_map, path), made.id) ]

process_dir_entry(l, path, root) == dir_entry_linked(ensure_dir_node(l, path), path, root)

(* engine.rs 210-241: a file entry after ensure_file_node. *)
file_entry_climbed(l, climbed) ==
    [ l EXCEPT !.nodes = climbed.nodes, !.changed_nodes = climbed.changed_nodes ]

(* A file entry linked and added to its ancestors but not counted. *)
file_entry_linked_uncounted(made, path, parent_id, size) ==
    file_entry_climbed(
        [ made.l EXCEPT
            !.extension_stats = add_extension_stat(@, extension_key(path), size) ],
        increment_ancestor_sizes(push_child(made.l.nodes, parent_id, made.id),
                                 parent_id, size, made.l.changed_nodes))

file_entry_linked(made, path, parent_id, size) ==
    file_entry_climbed(
        [ made.l EXCEPT
            !.total_files = @ + 1,
            !.extension_stats = add_extension_stat(@, extension_key(path), size) ],
        increment_ancestor_sizes(push_child(made.l.nodes, parent_id, made.id),
                                 parent_id, size, made.l.changed_nodes))

(* A file entry recorded whatever its length. *)
process_file_entry_recording_empty(l, path, len) ==
    file_entry_linked(
        ensure_file_node(l, path, parent_id_for_path(l.path_map, path),
                         IF IsSome(len) THEN Unwrap(len) ELSE 0),
        path, parent_id_for_path(l.path_map, path),
        IF IsSome(len) THEN Unwrap(len) ELSE 0)

(* engine.rs 188-242: a file entry: nothing is recorded for a file whose   *)
(* length is 0 or cannot be read.                                          *)
process_file_entry(l, path, len) ==
    IF ~IsSome(len) \/ Unwrap(len) = 0 THEN l
    ELSE file_entry_linked(
             ensure_file_node(
                 [ l EXCEPT !.visited_bytes_approx = saturating_add(@, Unwrap(len)) ],
                 path, parent_id_for_path(l.path_map, path), Unwrap(len)),
             path, parent_id_for_path(l.path_map, path), Unwrap(len))

(* engine.rs 171-242: an entry the walker could read. *)
process_entry(l, item, root) ==
    IF item.is_dir
    THEN process_dir_entry([ l EXCEPT !.visited_entries = @ + 1 ], item.path, root)
    ELSE process_file_entry([ l EXCEPT !.visited_entries = @ + 1 ], item.path, item.len)

(* engine.rs 423-428: the depth recompute_dir_sizes gives a node: the      *)
(* number of parent links followed until there is none.                    *)
RECURSIVE node_depth(_, _)
node_depth(nodes, parent) ==
    IF ~IsSome(parent) THEN 0
    ELSE IF Unwrap(parent) \in DOMAIN nodes
    THEN 1 + node_depth(nodes, nodes[Unwrap(parent)].parent)
    ELSE 1

(* The sum of the sizes of the children wrapping at 2^64 instead of        *)
(* stopping at u64::MAX.                                                   *)
RECURSIVE children_sum_wrapping(_, _, _)
children_sum_wrapping(nodes, children, i) ==
    IF i > Len(children) THEN 0
    ELSE ( ( IF children[i] \in DOMAIN nodes THEN nodes[children[i]].size_bytes ELSE 0 )
           + children_sum_wrapping(nodes, children, i + 1) ) % (U64_MAX + 1)

(* engine.rs 436-442: the saturating sum of the sizes of the children. *)
RECURSIVE children_sum(_, _, _)
children_sum(nodes, children, i) ==
    IF i > Len(children) THEN 0
    ELSE saturating_add(
             IF children[i] \in DOMAIN nodes THEN nodes[children[i]].size_bytes ELSE 0,
             children_sum(nodes, children, i + 1))

(* engine.rs 433-447 for the nodes of one depth. *)
recompute_dirs_at(nodes, depth) ==
    [ id \in DOMAIN nodes |->
        IF nodes[id].kind = KindDir /\ node_depth(nodes, nodes[id].parent) = depth
        THEN [ nodes[id] EXCEPT !.size_bytes = children_sum(nodes, nodes[id].children, 1) ]
        ELSE nodes[id] ]

RECURSIVE recompute_from_depth(_, _)
recompute_from_depth(nodes, depth) ==
    IF depth < 0 THEN nodes
    ELSE recompute_from_depth(recompute_dirs_at(nodes, depth), depth - 1)

(* engine.rs 420-448: recompute_dir_sizes: deepest nodes first. *)
recompute_dir_sizes(nodes) == recompute_from_depth(nodes, Len(nodes))

(***************************************************************************)
(* Scan events (events.rs)                                                 *)
(***************************************************************************)
StartedEvent(scan_id, root_path) ==
    [ event |-> "scan://started", scan_id |-> scan_id, root_path |-> root_path ]

(* at is the time of the emission; the payload does not carry it. *)
ProgressEvent(scan_id, l, phase) ==
    [ event |-> "scan://progress", scan_id |-> scan_id,
      visited_entries |-> l.visited_entries,
      visited_bytes_approx |-> l.visited_bytes_approx,
      current_path |-> l.current_path, phase |-> phase, at |-> l.now ]

PartialTreeEvent(scan_id, deltas, updated_at) ==
    [ event |-> "scan://partial-tree", scan_id |-> scan_id, nodes |-> deltas,
      updated_at |-> updated_at ]

FinishedEvent(scan_id, result) ==
    [ event |-> "scan://finished", scan_id |-> scan_id,
      summary |-> [ total_bytes |-> result.total_bytes,
                    total_files |-> result.total_files,
                    total_dirs |-> result.total_dirs,
                    extension_stats |-> result.extension_stats ],
      root_node_id |-> result.root_id ]

ErrorEvent(scan_id, message, path) ==
    [ event |-> "scan://error", scan_id |-> scan_id, message |-> message,
      path |-> path ]

CanceledEvent(scan_id) == [ event |-> "scan://canceled", scan_id |-> scan_id ]

(* engine.rs 527-537: node_to_delta. *)
node_to_delta(node) ==
    [ id |-> node.id, parent |-> node.parent, name |-> node.name, path |-> node.path,
      kind |-> node.kind, size_bytes |-> node.size_bytes, file_ext |-> node.file_ext ]

(* The drained change set sorted the other way round. *)
RECURSIVE sorted_ids_descending(_)
sorted_ids_descending(ids) ==
    IF ids = {} THEN << >>
    ELSE << CHOOSE m \in ids : \A k \in ids : m >= k >>
         \o sorted_ids_descending(ids \ { CHOOSE m \in ids : \A k \in ids : m >= k })

(* ids.sort_unstable() on the drained change set. *)
RECURSIVE sorted_ids(_)
sorted_ids(ids) ==
    IF ids = {} THEN << >>
    ELSE << CHOOSE m \in ids : \A k \in ids : m <= k >>
         \o sorted_ids(ids \ { CHOOSE m \in ids : \A k \in ids : m <= k })

(* The loop over the sorted ids forgetting the ids behind a full batch. *)
RECURSIVE batch_fill_dropping(_, _, _, _)
batch_fill_dropping(nodes, ids, deltas, put_back) ==
    IF ids = << >> THEN [ deltas |-> deltas, changed_nodes |-> put_back ]
    ELSE IF Len(deltas) >= MAX_PARTIAL_BATCH
    THEN batch_fill_dropping(nodes, Tail(ids), deltas, put_back)
    ELSE IF Head(ids) \in DOMAIN nodes
    THEN batch_fill_dropping(nodes, Tail(ids),
                             Append(deltas, node_to_delta(nodes[Head(ids)])), put_back)
    ELSE batch_fill_dropping(nodes, Tail(ids), deltas, put_back)

(* engine.rs 504-513: the loop over the sorted ids: the deltas pushed and  *)
(* the ids put back once MAX_PARTIAL_BATCH deltas are in.                  *)
RECURSIVE batch_fill(_, _, _, _)
batch_fill(nodes, ids, deltas, put_back) ==
    IF ids = << >> THEN [ deltas |-> deltas, changed_nodes |-> put_back ]
    ELSE IF Len(deltas) >= MAX_PARTIAL_BATCH
    THEN batch_fill(nodes, Tail(ids), deltas, put_back \cup { Head(ids) })
    ELSE IF Head(ids) \in DOMAIN nodes
    THEN batch_fill(nodes, Tail(ids), Append(deltas, node_to_delta(nodes[Head(ids)])),
                    put_back)
    ELSE batch_fill(nodes, Tail(ids), deltas, put_back)

(* engine.rs 490-525: emit_partial_batch at the time now: whether it       *)
(* emitted, what, and the change set it leaves.                            *)
batch_emitted(scan_id, filled, now) ==
    [ ret |-> TRUE, emitted |-> << PartialTreeEvent(scan_id, filled.deltas, now) >>,
      changed_nodes |-> filled.changed_nodes ]

emit_partial_batch(sink, scan_id, nodes, changed_nodes, now) ==
    IF changed_nodes = {} \/ ~sink
    THEN [ ret |-> FALSE, emitted |-> << >>, changed_nodes |-> changed_nodes ]
    ELSE batch_emitted(scan_id, batch_fill(nodes, sorted_ids(changed_nodes), << >>, {}), now)

(* engine.rs 279: while emit_partial_batch(..) {}: everything it emits and *)
(* the change set when it stops.                                           *)
RECURSIVE drain_after(_, _, _, _, _, _)
drain_after(sink, scan_id, nodes, emitted, batch, now) ==
    IF ~batch.ret
    THEN [ emitted |-> emitted \o batch.emitted, changed_nodes |-> batch.changed_nodes ]
    ELSE drain_after(sink, scan_id, nodes, emitted \o batch.emitted,
                     emit_partial_batch(sink, scan_id, nodes, batch.changed_nodes, now),
                     now)

(* The drain as one call of emit_partial_batch instead of a loop. *)
drain_partial_once(sink, scan_id, nodes, changed_nodes, now) ==
    [ emitted |-> emit_partial_batch(sink, scan_id, nodes, changed_nodes, now).emitted,
      changed_nodes |-> emit_partial_batch(sink, scan_id, nodes, changed_nodes, now).changed_nodes ]

drain_partial(sink, scan_id, nodes, changed_nodes, now) ==
    IF sink
    THEN drain_after(sink, scan_id, nodes, << >>,
                     emit_partial_batch(sink, scan_id, nodes, changed_nodes, now), now)
    ELSE [ emitted |-> << >>, changed_nodes |-> changed_nodes ]

(* maybe_emit_progress without the comparison with PROGRESS_INTERVAL. *)
maybe_emit_progress_unthrottled(sink, scan_id, l, phase) ==
    IF sink
    THEN [ emitted |-> << ProgressEvent(scan_id, l, phase) >>, last_emit |-> l.now ]
    ELSE [ emitted |-> << >>, last_emit |-> l.last_progress_emit ]

(* engine.rs 450-473: maybe_emit_progress: what it emits and the Instant   *)
(* it leaves in last_emit.                                                 *)
maybe_emit_progress(sink, scan_id, l, phase) ==
    IF l.now - l.last_progress_emit < PROGRESS_INTERVAL \/ ~sink
    THEN [ emitted |-> << >>, last_emit |-> l.last_progress_emit ]
    ELSE [ emitted |-> << ProgressEvent(scan_id, l, phase) >>, last_emit |-> l.now ]

(* engine.rs 475-488: maybe_emit_partial: what it emits, the change set    *)
(* and the Instant it leaves in last_emit.                                 *)
partial_emitted(l, batch) ==
    [ emitted |-> batch.emitted, changed_nodes |-> batch.changed_nodes,
      last_emit |-> IF batch.ret THEN l.now ELSE l.last_partial_emit ]

maybe_emit_partial(sink, scan_id, l) ==
    IF l.now - l.last_partial_emit < PARTIAL_INTERVAL
    THEN [ emitted |-> << >>, changed_nodes |-> l.changed_nodes,
           last_emit |-> l.last_partial_emit ]
    ELSE partial_emitted(l, emit_partial_batch(sink, scan_id, l.nodes, l.changed_nodes, l.now))

(***************************************************************************)
(* run_scan, one walker item at a time (engine.rs 88-307)                  *)
(***************************************************************************)
ScanIds == 1..MaxScans

OutcomeOk == "ok"

OutcomeCanceled == "canceled"

OutcomeFailed == "failed"

(* A scan id nothing has been submitted or run under. *)
IdleRun ==
    [ pc |-> "idle", caller |-> "none", scan_id |-> 0, root_path |-> << >>,
      options |-> ScanOptions(None), sink |-> FALSE, flag_at_start |-> FALSE,
      root |-> << >>, pos |-> 0, l |-> SeedLocals(<< >>),
      outcome |-> "none", message |-> "", result |-> None ]

(* The arguments of a call of run_scan (engine.rs 88-94) and who makes it. *)
NewRun(caller, scan_id, root_path, options, sink) ==
    [ IdleRun EXCEPT !.caller = caller, !.scan_id = scan_id, !.root_path = root_path,
                     !.options = options, !.sink = sink ]

(* run_scan returns. *)
Returned(r, outcome, message, result) ==
    [ r EXCEPT !.pc = "returned", !.outcome = outcome, !.message = message,
               !.result = result ]

(* engine.rs 95-163: run_scan up to the walk loop. *)
run_scan_rooted(r, root) ==
    IF root.ok
    THEN [ r EXCEPT !.pc = "walking", !.root = root.result, !.pos = 1,
                    !.l = SeedLocals(root.result) ]
    ELSE Returned(r, OutcomeFailed, root.err, None)

run_scan_begin(r, flag) ==
    run_scan_rooted([ r EXCEPT !.flag_at_start = flag ], normalize_root(r.root_path))

(* The walker's stream of the run. *)
WalkOf(r) == WalkTable[r.root][r.options]

(* emit_error_optional giving every error the path of the scan's root. *)
emit_error_with_root_path(sink, scan_id, message, path) ==
    IF sink THEN << ErrorEvent(scan_id, message, Some(<< >>)) >> ELSE << >>

(* engine.rs 539-555: emit_error_optional. *)
emit_error_optional(sink, scan_id, message, path) ==
    IF sink THEN << ErrorEvent(scan_id, message, path) >> ELSE << >>

(* The loop losing its count of files whenever it emits a batch. *)
walk_emitted_resetting_count(r, l, progress, partial) ==
    [ run |-> [ r EXCEPT !.pos = @ + 1,
                         !.l = [ l EXCEPT !.changed_nodes = partial.changed_nodes,
                                          !.total_files = IF partial.emitted # << >>
                                                          THEN 0 ELSE @,
                                          !.last_progress_emit = progress.last_emit,
                                          !.last_partial_emit = partial.last_emit ] ],
      emitted |-> progress.emitted \o partial.emitted ]

(* engine.rs 245-263: what the loop emits after an entry, and the run it   *)
(* leaves.                                                                 *)
walk_emitted(r, l, progress, partial) ==
    [ run |-> [ r EXCEPT !.pos = @ + 1,
                         !.l = [ l EXCEPT !.changed_nodes = partial.changed_nodes,
                                          !.last_progress_emit = progress.last_emit,
                                          !.last_partial_emit = partial.last_emit ] ],
      emitted |-> progress.emitted \o partial.emitted ]

(* engine.rs 246-262: the check made every EMIT_CHECK_EVERY entries. *)
walk_check(r, l) ==
    walk_emitted(r, l, maybe_emit_progress(r.sink, r.scan_id, l, "walking"),
                 maybe_emit_partial(r.sink, r.scan_id, l))

(* engine.rs 194-196, 244-263: the end of an iteration on a readable       *)
(* entry: an empty file leaves by continue, the others reach the check     *)
(* made every EMIT_CHECK_EVERY entries, elapsed ticks after the last one.  *)
walk_entry_done(r, l, item, elapsed) ==
    IF (~item.is_dir /\ (~IsSome(item.len) \/ Unwrap(item.len) = 0))
       \/ l.visited_entries % EMIT_CHECK_EVERY # 0
    THEN [ run |-> [ r EXCEPT !.pos = @ + 1, !.l = l ], emitted |-> << >> ]
    ELSE walk_check(r, [ l EXCEPT !.current_path = to_string_lossy(item.path), !.now = @ + elapsed ])

(* A load that never sees the store made by cancel_scan. *)
cancel_flag_load_stale(flag) == FALSE

(* engine.rs 167, 272: cancel_flag.load(Ordering::Relaxed) on a flag whose *)
(* value is flag.                                                          *)
cancel_flag_load(flag) == flag

(* The cancel flag polled before the first entry only. *)
cancel_poll_due_at_start(visited_entries) == visited_entries = 0

(* engine.rs 167: the cancel flag is polled when the count of visited      *)
(* entries is a multiple of the period.                                    *)
cancel_poll_due(visited_entries) == visited_entries % CANCEL_POLL_EVERY = 0

(* The walk loop left at an error of the walker. *)
walk_entry_failed_aborting(r, item) ==
    [ run |-> [ r EXCEPT !.pos = Len(WalkOf(r)) + 1 ],
      emitted |-> emit_error_optional(r.sink, r.scan_id, item.message, None) ]

(* engine.rs 265-268: the walker yielded an error: it is reported and the  *)
(* loop goes to the next item.                                             *)
walk_entry_failed(r, item) ==
    [ run |-> [ r EXCEPT !.pos = @ + 1 ],
      emitted |-> emit_error_optional(r.sink, r.scan_id, item.message, None) ]

(* engine.rs 165-270: one iteration of the walk loop on a cancel flag      *)
(* whose value is flag.                                                    *)
run_scan_item(r, item, flag, elapsed) ==
    IF cancel_poll_due(r.l.visited_entries) /\ cancel_flag_load(flag)
    THEN [ run |-> Returned(r, OutcomeCanceled, "", None), emitted |-> << >> ]
    ELSE IF item.ok
    THEN walk_entry_done(r, process_entry(r.l, item, r.root), item, elapsed)
    ELSE walk_entry_failed(r, item)

(* The ticks that may have passed since the last emission check when this *)
(* item reaches one.                                                       *)
ElapsedChoices(r) ==
    IF (r.l.visited_entries + 1) % EMIT_CHECK_EVERY = 0 THEN 0..MaxElapsed ELSE { 0 }

(* engine.rs 284-285: the statistics collected from the map in any order   *)
(* and sorted by bytes, largest first.                                     *)
sorted_extension_stats(extension_stats) ==
    { stats \in SeqsUpTo({ extension_stats[ext] : ext \in DOMAIN extension_stats },
                         Cardinality(DOMAIN extension_stats)) :
        /\ Len(stats) = Cardinality(DOMAIN extension_stats)
        /\ \A i \in 1..(Len(stats) - 1) : stats[i].bytes >= stats[i + 1].bytes }

(* engine.rs 283-294: the ScanResult. *)
ScanResult(r, nodes, extension_stats) ==
    [ scan_id |-> r.scan_id, root_id |-> r.l.root_id,
      total_bytes |-> IF r.l.root_id \in DOMAIN nodes
                      THEN nodes[r.l.root_id].size_bytes ELSE 0,
      total_files |-> r.l.total_files, total_dirs |-> r.l.total_dirs,
      extension_stats |-> extension_stats ]

(* engine.rs 278-306: the drain, the "finalizing" progress and the return. *)
run_scan_drained(r, nodes, drained, extension_stats) ==
    [ run |-> Returned([ r EXCEPT !.l.nodes = nodes,
                                  !.l.changed_nodes = drained.changed_nodes ],
                       OutcomeOk, "", Some(ScanResult(r, nodes, extension_stats))),
      emitted |-> drained.emitted \o
                  ( IF r.sink THEN << ProgressEvent(r.scan_id, r.l, "finalizing") >>
                    ELSE << >> ) ]

(* engine.rs 276-279: the recompute, every node marked changed, the drain. *)
run_scan_recomputed(r, nodes, extension_stats) ==
    run_scan_drained(r, nodes,
                     drain_partial(r.sink, r.scan_id, nodes,
                                   r.l.changed_nodes \cup DOMAIN nodes, r.l.now),
                     extension_stats)

(* run_scan after the walk loop without the gate of engine.rs 272. *)
run_scan_finish_ungated(r, flag, extension_stats) ==
    run_scan_recomputed(r, recompute_dir_sizes(r.l.nodes), extension_stats)

(* engine.rs 272-307: run_scan after the walk loop on a cancel flag whose  *)
(* value is flag.                                                          *)
run_scan_finish(r, flag, extension_stats) ==
    IF cancel_flag_load(flag)
    THEN [ run |-> Returned(r, OutcomeCanceled, "", None), emitted |-> << >> ]
    ELSE run_scan_recomputed(r, recompute_dir_sizes(r.l.nodes), extension_stats)

(* The worker calling remove_scan where it has a result to store. *)
worker_after_event_removing(outcome) == "removing"

(* The worker leaving without remove_scan after a canceled or failed scan. *)
worker_after_event_without_remove(outcome) ==
    IF outcome = OutcomeOk THEN "finishing" ELSE "done"

(* commands.rs 85, 89, 100: where the worker goes after the terminal       *)
(* event: finish_scan after a result, remove_scan otherwise.               *)
worker_after_event(outcome) == IF outcome = OutcomeOk THEN "finishing" ELSE "removing"

(* The terminal event of a scan, the error without the root path. *)
terminal_event_without_path(r, root_path) ==
    IF r.outcome = OutcomeOk THEN FinishedEvent(r.scan_id, Unwrap(r.result))
    ELSE IF r.outcome = OutcomeCanceled THEN CanceledEvent(r.scan_id)
    ELSE ErrorEvent(r.scan_id, r.message, None)

(* commands.rs 67-101: the terminal event of a scan. *)
terminal_event(r, root_path) ==
    IF r.outcome = OutcomeOk THEN FinishedEvent(r.scan_id, Unwrap(r.result))
    ELSE IF r.outcome = OutcomeCanceled THEN CanceledEvent(r.scan_id)
    ELSE ErrorEvent(r.scan_id, r.message, Some(root_path))

(* History: no cancel_scan has returned true for the scan yet. *)
NotCanceled == [ pc |-> "never", visited |-> 0 ]

(* The registry and the event stream before any scan is submitted. *)
ScanIdle ==
    /\ active_scans = {}
    /\ cancel_flag = [ id \in ScanIds |-> FALSE ]
    /\ results = << >>
    /\ run = [ id \in ScanIds |-> IdleRun ]
    /\ events = [ id \in ScanIds |-> << >> ]
    /\ cancel_when = [ id \in ScanIds |-> NotCanceled ]

(***************************************************************************)
(* The delete commands as actions                                          *)
(***************************************************************************)
(* The paths a bulk request is drawn from: one of each kind. *)
BulkPaths == { P_boot, P_t_dist, P_t_dist_x, P_gone }

BulkRequests == SeqsUpTo(BulkPaths, MaxBulkPaths)

NoReply == [ cmd |-> "none" ]

(* A delete command returns: the disk it left, the events it emitted and   *)
(* what it answered.                                                       *)
DeleteDone(request, out) ==
    /\ fs' = out.disk
    /\ fs_before' = fs
    /\ delete_events' = out.emitted
    /\ reply' = [ request EXCEPT !.ret = out.ret ]
    /\ UNCHANGED << platform, trash_ok, locked >>
    /\ UNCHANGED scanVars

(* smart_delete_file is a library function: it emits nothing. *)
Silent(out) == [ ret |-> out.ret, emitted |-> << >>, disk |-> out.disk ]

(* The front-end invokes smart_delete(path, force). *)
SmartDelete(path, force) ==
    DeleteDone([ cmd |-> "smart_delete", path |-> path, force |-> force, ret |-> None ],
               smart_delete(path, force, fs))

(* The front-end invokes bulk_smart_delete(paths, force). *)
BulkSmartDelete(paths, force) ==
    DeleteDone([ cmd |-> "bulk_smart_delete", paths |-> paths, force |-> force,
                 ret |-> None ],
               bulk_smart_delete(paths, force, fs))

(* A caller inside the crate invokes the Deleter's smart_delete_file. *)
CallSmartDeleteFile(path, force) ==
    DeleteDone([ cmd |-> "smart_delete_file", path |-> path, force |-> force,
                 ret |-> None ],
               Silent(smart_delete_file(path, force, fs)))

(* The disk of the deleter while no delete command has run. *)
DeleteIdle ==
    /\ fs = FsPaths
    /\ fs_before = FsPaths
    /\ platform = "unix"
    /\ trash_ok = TRUE
    /\ locked = {}
    /\ delete_events = << >>

InitDelete ==
    /\ fs = FsPaths
    /\ fs_before = FsPaths
    /\ platform \in Platforms
    /\ trash_ok \in BOOLEAN
    /\ locked \in SUBSET Lockable
    /\ delete_events = << >>
    /\ reply = NoReply
    /\ ScanIdle

NextDelete ==
    \/ \E path \in DeletePaths, force \in BOOLEAN : SmartDelete(path, force)
    \/ \E paths \in BulkRequests, force \in BOOLEAN : BulkSmartDelete(paths, force)
    \/ \E path \in DeletePaths, force \in BOOLEAN : CallSmartDeleteFile(path, force)

SpecDelete == InitDelete /\ [][NextDelete]_vars

(***************************************************************************)
(* Properties of the smart-delete pipeline                                 *)
(***************************************************************************)
HasFailedEvent(evs, path) ==
    \E i \in 1..Len(evs) : evs[i].event = "delete://failed" /\ evs[i].path = path

HasError(errors, msg, path) ==
    \E i \in 1..Len(errors) : errors[i] = ErrMsg(msg, path)

(* The accumulators of bulk_smart_delete after its first n paths. *)
BulkAfter(paths, n, force, d) == bulk_loop(BulkStart(d), SubSeq(paths, 1, n), force)

(* The last command was cmd, called on a path that existed with this level. *)
LastCommandOn(cmd, level) ==
    /\ reply.cmd = cmd
    /\ path_exists(reply.path, fs_before)
    /\ safety_level_on(reply.path, fs_before) = level

(* The last command was bulk_smart_delete and its loop found its i-th path *)
(* existing and classified with this level.                                *)
BulkReached(i, level) ==
    LET before == BulkAfter(reply.paths, i - 1, reply.force, fs_before)
    IN  /\ path_exists(reply.paths[i], before.disk)
        /\ safety_level_on(reply.paths[i], before.disk) = level

(* C1: smart_delete on an existing path classified Protected, with force   *)
(* true as with force false, returns an error, emits delete://failed for   *)
(* the path and leaves the disk as it was.                                 *)
C1_SmartDeleteRefusesProtected ==
    LastCommandOn("smart_delete", Protected)
    => ( /\ ~reply.ret.ok
         /\ HasFailedEvent(delete_events, reply.path)
         /\ \A i \in 1..Len(delete_events) :
                delete_events[i].event # "delete://deleted"
         /\ fs = fs_before )

C1_Witness ==
    /\ LastCommandOn("smart_delete", Protected)
    /\ reply.force
    /\ ~reply.ret.ok
    /\ HasFailedEvent(delete_events, reply.path)
    /\ fs = fs_before

(* C2: smart_delete_file on an existing path classified Protected returns  *)
(* an error and leaves the disk as it was, whatever force is.              *)
C2_DeleteFileNeverDeletesProtected ==
    LastCommandOn("smart_delete_file", Protected)
    => ( ~reply.ret.ok /\ fs = fs_before )

(* C3: a path that exists and is ConfirmRequired when smart_delete, or the *)
(* loop of bulk_smart_delete, reaches it with force false is not removed   *)
(* by that call or iteration, and an error is reported for it; so where    *)
(* such a path was removed, force was true.                                *)
C3_ConfirmRequiredNeedsForce ==
    /\ ( LastCommandOn("smart_delete", ConfirmRequired) /\ ~reply.force )
       => ( ~reply.ret.ok /\ fs = fs_before )
    /\ ( LastCommandOn("smart_delete", ConfirmRequired) /\ reply.path \notin fs )
       => reply.force
    /\ reply.cmd = "bulk_smart_delete"
       => \A i \in 1..Len(reply.paths) :
            LET before == BulkAfter(reply.paths, i - 1, reply.force, fs_before)
                after  == BulkAfter(reply.paths, i, reply.force, fs_before)
            IN  /\ ( BulkReached(i, ConfirmRequired) /\ ~reply.force )
                   => ( /\ after.disk = before.disk
                        /\ HasError(reply.ret.errors, "Requires confirmation",
                                    reply.paths[i])
                        /\ ~reply.ret.success )
                /\ ( BulkReached(i, ConfirmRequired) /\ after.disk # before.disk )
                   => reply.force

C3_Witness ==
    /\ reply.cmd = "bulk_smart_delete"
    /\ ~reply.force
    /\ \E i \in 1..Len(reply.paths) :
          /\ BulkReached(i, ConfirmRequired)
          /\ reply.paths[i] \in fs
          /\ HasError(reply.ret.errors, "Requires confirmation", reply.paths[i])

(* The classifier refuses the deletion: the path is protected, or it is    *)
(* confirm-required and force is false.                                    *)
RefusedLevel(level, force) ==
    level = Protected \/ (level = ConfirmRequired /\ ~force)

(* C4 as stated: every refused deletion, in smart_delete and in            *)
(* bulk_smart_delete, emits delete://failed for the path and reports the   *)
(* refusal error.                                                          *)
C4_EveryRefusalEmitsFailed ==
    /\ \A level \in SafetyLevel :
         ( LastCommandOn("smart_delete", level) /\ RefusedLevel(level, reply.force) )
         => ( ~reply.ret.ok /\ HasFailedEvent(delete_events, reply.path) )
    /\ reply.cmd = "bulk_smart_delete"
       => \A i \in 1..Len(reply.paths) : \A level \in SafetyLevel :
            ( BulkReached(i, level) /\ RefusedLevel(level, reply.force) )
            => ( ~reply.ret.success /\ HasFailedEvent(delete_events, reply.paths[i]) )

(* C4 amended: a refusal of a protected path emits delete://failed for the *)
(* path and reports the refusal error; a refusal of a confirm-required     *)
(* path reports the refusal error and emits no event.                      *)
C4_ProtectedRefusalEmitsFailed ==
    /\ LastCommandOn("smart_delete", Protected)
       => ( /\ reply.ret = Err(ErrMsg("Cannot delete protected system file", reply.path))
            /\ Len(delete_events) = 1
            /\ HasFailedEvent(delete_events, reply.path) )
    /\ ( LastCommandOn("smart_delete", ConfirmRequired) /\ ~reply.force )
       => ( /\ reply.ret = Err(ErrMsg("Confirmation required for this file type",
                                      reply.path))
            /\ delete_events = << >> )
    /\ reply.cmd = "bulk_smart_delete"
       => \A i \in 1..Len(reply.paths) :
            LET before == BulkAfter(reply.paths, i - 1, reply.force, fs_before)
                after  == BulkAfter(reply.paths, i, reply.force, fs_before)
            IN  /\ BulkReached(i, Protected)
                   => ( /\ after.errors = Append(before.errors,
                                    ErrMsg("Skipped protected", reply.paths[i]))
                        /\ Len(after.emitted) = Len(before.emitted) + 1
                        /\ HasFailedEvent(SubSeq(after.emitted, Len(after.emitted),
                                                 Len(after.emitted)), reply.paths[i])
                        /\ HasFailedEvent(delete_events, reply.paths[i])
                        /\ ~reply.ret.success )
                /\ ( BulkReached(i, ConfirmRequired) /\ ~reply.force )
                   => ( /\ after.errors = Append(before.errors,
                                    ErrMsg("Requires confirmation", reply.paths[i]))
                        /\ after.emitted = before.emitted
                        /\ ~reply.ret.success )

C4_Witness ==
    /\ reply.cmd = "bulk_smart_delete"
    /\ \E i, j \in 1..Len(reply.paths) :
          /\ BulkReached(i, Protected)
          /\ HasError(reply.ret.errors, "Skipped protected", reply.paths[i])
          /\ HasFailedEvent(delete_events, reply.paths[i])
          /\ BulkReached(j, ConfirmRequired)
          /\ ~reply.force
          /\ HasError(reply.ret.errors, "Requires confirmation", reply.paths[j])
          /\ ~HasFailedEvent(delete_events, reply.paths[j])

(***************************************************************************)
(* The scan commands and the worker thread (commands.rs, state.rs)         *)
(***************************************************************************)
(* The id a new scan gets: Uuid::new_v4 never repeats. *)
FreshId(id) ==
    /\ run[id].pc = "idle"
    /\ \A other \in ScanIds : other < id => run[other].pc # "idle"

HasEvent(evs, name) == \E i \in 1..Len(evs) : evs[i].event = name

(* A step of run_scan: the run it leaves and the events it emitted. *)
RunStep(id, out) ==
    /\ run' = [ run EXCEPT ![id] = out.run ]
    /\ events' = [ events EXCEPT ![id] = @ \o out.emitted ]
    /\ UNCHANGED << active_scans, cancel_flag, results, cancel_when, reply >>
    /\ UNCHANGED deleteVars

(* commands.rs 23-106: start_scan: insert_scan, emit_started, thread::spawn. *)
StartScan(id, root_path, options) ==
    /\ FreshId(id)
    /\ active_scans' = active_scans \cup { id }
    /\ cancel_flag' = [ cancel_flag EXCEPT ![id] = FALSE ]
    /\ events' = [ events EXCEPT ![id] = Append(@, StartedEvent(id, root_path)) ]
    /\ run' = [ run EXCEPT ![id] = [ NewRun("worker", id, root_path, options, TRUE)
                                       EXCEPT !.pc = "spawned" ] ]
    /\ reply' = [ cmd |-> "start_scan", scan_id |-> id ]
    /\ UNCHANGED << results, cancel_when >>
    /\ UNCHANGED deleteVars

(* commands.rs 53-65: the worker takes the cancel flag of its entry and    *)
(* enters run_scan; without an entry it leaves.                            *)
WorkerStart(id) ==
    /\ run[id].pc = "spawned"
    /\ run' = [ run EXCEPT ![id] = IF id \in active_scans
                                   THEN run_scan_begin(@, cancel_flag[id])
                                   ELSE [ @ EXCEPT !.pc = "done" ] ]
    /\ UNCHANGED << active_scans, cancel_flag, results, events, cancel_when, reply >>
    /\ UNCHANGED deleteVars

(* engine.rs 88-94: run_scan called directly, as the tests of engine.rs    *)
(* do, with a flag of the caller's and with or without a sink.             *)
CallRunScan(id, root_path, options, flag, sink) ==
    /\ FreshId(id)
    /\ \A other \in ScanIds : run[other].pc = "idle"
    /\ cancel_flag' = [ cancel_flag EXCEPT ![id] = flag ]
    /\ run' = [ run EXCEPT ![id] =
                  run_scan_begin(NewRun("direct", id, root_path, options, sink), flag) ]
    /\ UNCHANGED << active_scans, results, events, cancel_when, reply >>
    /\ UNCHANGED deleteVars

(* engine.rs 165-270: one iteration of the walk loop. *)
RunScanWalk(id) ==
    /\ run[id].pc = "walking"
    /\ run[id].pos <= Len(WalkOf(run[id]))
    /\ \E elapsed \in ElapsedChoices(run[id]) :
         RunStep(id, run_scan_item(run[id], WalkOf(run[id])[run[id].pos],
                                   cancel_flag[id], elapsed))

(* engine.rs 272-307: the walker is exhausted: the gate, the recompute,    *)
(* the drain and the return.                                               *)
RunScanGate(id) ==
    /\ run[id].pc = "walking"
    /\ run[id].pos > Len(WalkOf(run[id]))
    /\ \E extension_stats \in sorted_extension_stats(run[id].l.extension_stats) :
         RunStep(id, run_scan_finish(run[id], cancel_flag[id], extension_stats))

(* engine.rs 306: the direct caller takes what run_scan returned; the      *)
(* locals of the call are gone.                                            *)
TakeResult(id) ==
    /\ run[id].pc = "returned"
    /\ run[id].caller = "direct"
    /\ run' = [ run EXCEPT ![id] = [ IdleRun EXCEPT !.pc = "taken" ] ]
    /\ UNCHANGED << active_scans, cancel_flag, results, events, cancel_when, reply >>
    /\ UNCHANGED deleteVars

(* commands.rs 67-101: the worker emits the terminal event of its scan. *)
WorkerReport(id) ==
    /\ run[id].pc = "returned"
    /\ run[id].caller = "worker"
    /\ events' = [ events EXCEPT ![id] = Append(@, terminal_event(run[id], run[id].root_path)) ]
    /\ run' = [ run EXCEPT ![id].pc = worker_after_event(run[id].outcome) ]
    /\ UNCHANGED << active_scans, cancel_flag, results, cancel_when, reply >>
    /\ UNCHANGED deleteVars

(* state.rs 45-47: finish_scan stores the result. *)
FinishScanInsert(id) ==
    /\ run[id].pc = "finishing"
    /\ results' = map_insert(results, id, Unwrap(run[id].result))
    /\ run' = [ run EXCEPT ![id].pc = "stored" ]
    /\ UNCHANGED << active_scans, cancel_flag, events, cancel_when, reply >>
    /\ UNCHANGED deleteVars

(* state.rs 48-50: finish_scan removes the active entry. *)
FinishScanRemove(id) ==
    /\ run[id].pc = "stored"
    /\ active_scans' = active_scans \ { id }
    /\ run' = [ run EXCEPT ![id].pc = "done" ]
    /\ UNCHANGED << cancel_flag, results, events, cancel_when, reply >>
    /\ UNCHANGED deleteVars

(* state.rs 53-57: remove_scan. *)
RemoveScan(id) ==
    /\ run[id].pc = "removing"
    /\ active_scans' = active_scans \ { id }
    /\ run' = [ run EXCEPT ![id].pc = "done" ]
    /\ UNCHANGED << cancel_flag, results, events, cancel_when, reply >>
    /\ UNCHANGED deleteVars

(* cancel_scan storing into the flag of a scan whose entry is gone. *)
cancel_scan_without_entry(active, flags, id) ==
    [ ret |-> id \in active, cancel_flag |-> [ flags EXCEPT ![id] = TRUE ] ]

(* state.rs 34-42: AppState::cancel_scan: what it returns and the flags it *)
(* leaves.                                                                 *)
cancel_scan(active, flags, id) ==
    IF id \in active
    THEN [ ret |-> TRUE, cancel_flag |-> [ flags EXCEPT ![id] = TRUE ] ]
    ELSE [ ret |-> FALSE, cancel_flag |-> flags ]

(* commands.rs 108-111, state.rs 34-42: cancel_scan. *)
CancelScan(id) ==
    /\ cancel_flag' = cancel_scan(active_scans, cancel_flag, id).cancel_flag
    /\ cancel_when' = IF id \in active_scans /\ cancel_when[id] = NotCanceled
                      THEN [ cancel_when EXCEPT ![id] =
                               [ pc |-> run[id].pc,
                                 visited |-> IF run[id].pc = "walking"
                                             THEN run[id].l.visited_entries ELSE 0 ] ]
                      ELSE cancel_when
    /\ reply' = [ cmd |-> "cancel_scan", scan_id |-> id,
                  ret |-> cancel_scan(active_scans, cancel_flag, id).ret ]
    /\ UNCHANGED << active_scans, results, run, events >>
    /\ UNCHANGED deleteVars

(* commands.rs 113-116, state.rs 59-64: get_scan_result; the reply keeps   *)
(* whether scan://finished had been emitted when the call was made.        *)
GetScanResult(id) ==
    /\ reply' = [ cmd |-> "get_scan_result", scan_id |-> id,
                  ret |-> map_get(results, id),
                  after_finished |-> HasEvent(events[id], "scan://finished") ]
    /\ UNCHANGED scanVars
    /\ UNCHANGED deleteVars

InitScan ==
    /\ ScanIdle
    /\ DeleteIdle
    /\ reply = NoReply

(* Scans submitted through the commands, each run by its worker thread. *)
NextScan ==
    \/ \E id \in ScanIds, root_path \in SubmitRoots, options \in SubmitOptions :
         StartScan(id, root_path, options)
    \/ \E id \in ScanIds : WorkerStart(id)
    \/ \E id \in ScanIds : RunScanWalk(id)
    \/ \E id \in ScanIds : RunScanGate(id)
    \/ \E id \in ScanIds : WorkerReport(id)
    \/ \E id \in ScanIds : FinishScanInsert(id)
    \/ \E id \in ScanIds : FinishScanRemove(id)
    \/ \E id \in ScanIds : RemoveScan(id)
    \/ \E id \in ScanIds : CancelScan(id)
    \/ \E id \in ScanIds : GetScanResult(id)

SpecScan == InitScan /\ [][NextScan]_vars

(* run_scan called directly: one call on any root, with any options, with *)
(* the flag set or not, with a sink or without.                            *)
NextRunScan ==
    \/ \E id \in ScanIds, root_path \in ScanRoots, options \in ScanOptionsSet,
          flag \in BOOLEAN, sink \in BOOLEAN :
         CallRunScan(id, root_path, options, flag, sink)
    \/ \E id \in ScanIds : RunScanWalk(id)
    \/ \E id \in ScanIds : RunScanGate(id)
    \/ \E id \in ScanIds : TakeResult(id)

SpecRunScan == InitScan /\ [][NextRunScan]_vars

(***************************************************************************)
(* Properties of the scan registry, the worker and the engine              *)
(***************************************************************************)
(* run_scan has returned under this id. *)
HasReturned(id) == run[id].pc \notin { "idle", "spawned", "walking", "taken" }

RootExists(id) == normalize_root(run[id].root_path).ok

(* The scan ended Canceled and left no result anywhere. *)
EndedCanceled(id) ==
    /\ run[id].outcome = OutcomeCanceled
    /\ run[id].result = None
    /\ id \notin DOMAIN results
    /\ ~HasEvent(events[id], "scan://finished")
    /\ run[id].pc = "done"
       => ( HasEvent(events[id], "scan://canceled") /\ id \notin active_scans )

(* C5: when the cancel flag is already set as run_scan starts on a root    *)
(* that exists, run_scan returns Canceled, whatever the tree and the       *)
(* options, produces no ScanResult, and none is stored in the registry.    *)
C5_PresetCancelYieldsCanceled ==
    \A id \in ScanIds :
        ( run[id].flag_at_start /\ RootExists(id) /\ HasReturned(id) )
        => ( /\ run[id].outcome = OutcomeCanceled
             /\ run[id].result = None
             /\ id \notin DOMAIN results
             /\ run[id].l = SeedLocals(run[id].root) )

C5_Witness ==
    \E id \in ScanIds :
        /\ run[id].flag_at_start
        /\ run[id].root_path = << N_empty >>
        /\ run[id].pc = "returned"
        /\ run[id].outcome = OutcomeCanceled
        /\ id \notin DOMAIN results

(* C6 as stated: whenever cancel_scan(id) has returned true, the scan ends *)
(* Canceled: scan://canceled is emitted, the active entry is removed, no   *)
(* scan://finished is emitted and no result is stored.                     *)
C6_CancelTrueMeansCanceled ==
    \A id \in ScanIds :
        ( cancel_when[id].pc # "never" /\ HasReturned(id) ) => EndedCanceled(id)

(* C6 amended: when cancel_scan(id) has returned true before the worker    *)
(* made the post-walk load of the flag, and the root exists, the scan ends *)
(* Canceled: scan://canceled is emitted, the active entry is removed, no   *)
(* scan://finished is emitted and no result is stored.                     *)
C6_CancelBeforeGateMeansCanceled ==
    \A id \in ScanIds :
        ( cancel_when[id].pc \in { "spawned", "walking" } /\ RootExists(id)
          /\ HasReturned(id) )
        => EndedCanceled(id)

C6_Witness ==
    \E id \in ScanIds :
        /\ cancel_when[id].pc = "walking"
        /\ run[id].l.visited_entries > 0
        /\ run[id].pc = "done"
        /\ EndedCanceled(id)

(* C7: the results map holds an entry for a scan id only if that scan's    *)
(* run_scan returned a ScanResult, which is the entry; a scan that ended   *)
(* Canceled or Failed has no result, and no active entry once its worker   *)
(* is done.                                                                *)
C7_ResultOnlyOnSuccess ==
    \A id \in ScanIds :
        /\ id \in DOMAIN results
           => ( /\ run[id].outcome = OutcomeOk
                /\ run[id].result = Some(results[id]) )
        /\ run[id].outcome \in { OutcomeCanceled, OutcomeFailed }
           => ( /\ id \notin DOMAIN results
                /\ run[id].pc = "done" => id \notin active_scans )

C7_Witness ==
    \E id \in ScanIds :
        /\ run[id].pc = "done"
        /\ run[id].outcome = OutcomeOk
        /\ id \in DOMAIN results
        /\ results[id].total_files > 0
        /\ id \notin active_scans

(* C8: a get_scan_result(id) issued after scan://finished was emitted for  *)
(* id returns that scan's ScanResult.                                      *)
C8_FinishedMeansRetrievable ==
    ( reply.cmd = "get_scan_result" /\ reply.after_finished )
    => ( IsSome(reply.ret) /\ reply.ret = run[reply.scan_id].result )

IsTerminalName(name) ==
    name \in { "scan://finished", "scan://canceled", "scan://error" }

(* C9 as stated: the events of a submitted scan start with scan://started  *)
(* and none follows a scan://finished, scan://canceled or scan://error.    *)
C9_StartedFirstTerminalLast ==
    \A id \in ScanIds :
        run[id].caller = "worker"
        => ( /\ events[id][1].event = "scan://started"
             /\ \A i \in 2..Len(events[id]) : events[id][i].event # "scan://started"
             /\ \A i \in 1..(Len(events[id]) - 1) :
                    ~IsTerminalName(events[id][i].event) )

(* The events that end a scan's stream: finished, canceled, and the error  *)
(* the worker emits for a failed scan, which carries the root path.        *)
EndsStream(ev) ==
    \/ ev.event \in { "scan://finished", "scan://canceled" }
    \/ ( ev.event = "scan://error" /\ IsSome(ev.path) )

(* C9 amended: the events of a submitted scan start with scan://started,   *)
(* and none follows scan://finished, scan://canceled or the scan://error   *)
(* that carries the root path; the scan://error of a walker entry carries  *)
(* no path and is followed by the rest of the stream.                      *)
C9_StartedFirstEndLast ==
    \A id \in ScanIds :
        run[id].caller = "worker"
        => ( /\ events[id][1].event = "scan://started"
             /\ \A i \in 2..Len(events[id]) : events[id][i].event # "scan://started"
             /\ \A i \in 1..(Len(events[id]) - 1) : ~EndsStream(events[id][i])
             /\ run[id].pc \in { "finishing", "stored", "removing", "done" }
                => EndsStream(events[id][Len(events[id])]) )

C9_Witness ==
    \E id \in ScanIds :
        /\ run[id].caller = "worker"
        /\ run[id].pc = "done"
        /\ \E i, j \in 1..Len(events[id]) :
              /\ i < j
              /\ events[id][i].event = "scan://error"
              /\ events[id][i].path = None
              /\ events[id][j].event = "scan://partial-tree"
        /\ events[id][Len(events[id])].event = "scan://finished"

(* The tree a run was started on. *)
TreeOf(id) == Unwrap(entry_at(ScanDisk, run[id].root))

(* run_scan returned a ScanResult for a tree rooted at a directory. *)
CompletedOnDir(id) ==
    /\ HasReturned(id)
    /\ run[id].outcome = OutcomeOk
    /\ TreeOf(id).is_dir

(* The sizes of all leaf files of a tree, summed up to u64::MAX. *)
RECURSIVE LeafBytes(_)
LeafBytes(entry) ==
    IF ~entry.is_dir THEN ( IF IsSome(entry.len) THEN Unwrap(entry.len) ELSE 0 )
    ELSE Min(U64_MAX, SumSeq([ i \in 1..Len(entry.entries) |->
                                 LeafBytes(entry.entries[i]) ]))

(* C10 as stated: the total_bytes of a completed scan of a directory tree  *)
(* is the sum of the sizes of all leaf files of the tree.                  *)
C10_TotalBytesIsLeafSum ==
    \A id \in ScanIds :
        CompletedOnDir(id) => Unwrap(run[id].result).total_bytes = LeafBytes(TreeOf(id))

(* A directory of the tree whose entries the scan does not see: its name   *)
(* is on the skip list (below the root), it cannot be listed, or it lies   *)
(* at max_depth.                                                           *)
NotEntered(entry, depth, max_depth) ==
    \/ ( depth > 0 /\ \E skip \in SKIP_DIRS :
                        to_lowercase(entry.name) = to_lowercase(skip) )
    \/ ~entry.readable
    \/ ( IsSome(max_depth) /\ depth >= Unwrap(max_depth) )

(* The sizes of the leaf files the scan sees, summed up to u64::MAX. *)
RECURSIVE SeenBytes(_, _, _)
SeenBytes(entry, depth, max_depth) ==
    IF ~entry.is_dir THEN ( IF IsSome(entry.len) THEN Unwrap(entry.len) ELSE 0 )
    ELSE IF NotEntered(entry, depth, max_depth) THEN 0
    ELSE Min(U64_MAX, SumSeq([ i \in 1..Len(entry.entries) |->
                                 SeenBytes(entry.entries[i], depth + 1, max_depth) ]))

(* The total_bytes of a completed scan of a directory tree is the sum,     *)
(* saturating at u64::MAX, of the sizes of the leaf files that are within  *)
(* max_depth, have readable metadata and lie in no skip-listed or          *)
(* unlistable directory below the root. It fails where two entries have    *)
(* the same path string: their sizes are then counted more than once.      *)
C10_TotalBytesIsSeenSum ==
    \A id \in ScanIds :
        CompletedOnDir(id)
        => Unwrap(run[id].result).total_bytes
             = SeenBytes(TreeOf(id), 0, run[id].options.max_depth)

C10_Witness ==
    \E id \in ScanIds :
        /\ CompletedOnDir(id)
        /\ run[id].options.max_depth = None
        /\ Unwrap(run[id].result).total_bytes = U64_MAX
        /\ SeenBytes(TreeOf(id), 0, None) = U64_MAX
        /\ LeafBytes(TreeOf(id)) = U64_MAX
        /\ run[id].l.total_files = 3

(***************************************************************************)
(* Properties of the counters and the node graph of a scan                 *)
(***************************************************************************)
(* The number of leaf files of a tree. *)
RECURSIVE LeafCount(_)
LeafCount(entry) ==
    IF ~entry.is_dir THEN 1
    ELSE SumSeq([ i \in 1..Len(entry.entries) |-> LeafCount(entry.entries[i]) ])

(* C11 as stated: the total_files of a completed scan of a directory tree  *)
(* is the number of leaf files of the tree.                                *)
C11_TotalFilesIsLeafCount ==
    \A id \in ScanIds :
        CompletedOnDir(id) => Unwrap(run[id].result).total_files = LeafCount(TreeOf(id))

(* The number of leaf files the scan records: those it sees whose length   *)
(* can be read and is not 0.                                               *)
RECURSIVE SeenFiles(_, _, _)
SeenFiles(entry, depth, max_depth) ==
    IF ~entry.is_dir
    THEN ( IF IsSome(entry.len) /\ Unwrap(entry.len) > 0 THEN 1 ELSE 0 )
    ELSE IF NotEntered(entry, depth, max_depth) THEN 0
    ELSE SumSeq([ i \in 1..Len(entry.entries) |->
                    SeenFiles(entry.entries[i], depth + 1, max_depth) ])

(* C11 amended: the total_files of a completed scan of a directory tree is *)
(* the number of leaf files that are within max_depth, have a readable     *)
(* length other than 0 and lie in no skip-listed or unlistable directory   *)
(* below the root.                                                         *)
C11_TotalFilesIsSeenCount ==
    \A id \in ScanIds :
        CompletedOnDir(id)
        => Unwrap(run[id].result).total_files
             = SeenFiles(TreeOf(id), 0, run[id].options.max_depth)

C11_Witness ==
    \E id \in ScanIds :
        /\ CompletedOnDir(id)
        /\ run[id].options.max_depth = None
        /\ Unwrap(run[id].result).total_files = 2
        /\ SeenFiles(TreeOf(id), 0, None) = 2
        /\ LeafCount(TreeOf(id)) = 5

(* The number of directories of a tree, the root included. *)
RECURSIVE DirCount(_)
DirCount(entry) ==
    IF ~entry.is_dir THEN 0
    ELSE 1 + SumSeq([ i \in 1..Len(entry.entries) |-> DirCount(entry.entries[i]) ])

(* C12 as stated: the total_dirs of a completed scan of a directory tree   *)
(* is the number of directories of the tree, the root counted once.        *)
C12_TotalDirsIsDirCount ==
    \A id \in ScanIds :
        CompletedOnDir(id) => Unwrap(run[id].result).total_dirs = DirCount(TreeOf(id))

(* The number of directories the walker yields: the root, and below it the *)
(* directories within max_depth that are not skip-listed and lie in no     *)
(* skip-listed or unlistable directory.                                    *)
RECURSIVE SeenDirs(_, _, _)
SeenDirs(entry, depth, max_depth) ==
    IF ~entry.is_dir THEN 0
    ELSE IF depth > 0 /\ \E skip \in SKIP_DIRS :
                            to_lowercase(entry.name) = to_lowercase(skip)
    THEN 0
    ELSE IF NotEntered(entry, depth, max_depth) THEN 1
    ELSE 1 + SumSeq([ i \in 1..Len(entry.entries) |->
                        SeenDirs(entry.entries[i], depth + 1, max_depth) ])

(* C12 amended: the total_dirs of a completed scan of a directory tree is  *)
(* the root plus the directories within max_depth whose name is not on the *)
(* skip list and that lie in no skip-listed or unlistable directory.       *)
C12_TotalDirsIsSeenCount ==
    \A id \in ScanIds :
        CompletedOnDir(id)
        => Unwrap(run[id].result).total_dirs
             = SeenDirs(TreeOf(id), 0, run[id].options.max_depth)

C12_Witness ==
    \E id \in ScanIds :
        /\ CompletedOnDir(id)
        /\ run[id].options.max_depth = None
        /\ Unwrap(run[id].result).total_dirs = 3
        /\ SeenDirs(TreeOf(id), 0, None) = 3
        /\ DirCount(TreeOf(id)) = 4

(* run_scan returned a ScanResult. *)
Completed(id) == HasReturned(id) /\ run[id].outcome = OutcomeOk

(* The sizes of the children of a node, in the order of its children list. *)
ChildSizes(nodes, n) == [ i \in 1..Len(n.children) |-> nodes[n.children[i]].size_bytes ]

(* C13 as stated: in the node graph of a completed scan the size_bytes of  *)
(* each Dir node is the sum of the size_bytes of its children.             *)
C13_DirSizeIsChildSum ==
    \A id \in ScanIds :
        Completed(id)
        => \A k \in DOMAIN run[id].l.nodes :
               run[id].l.nodes[k].kind = KindDir
               => run[id].l.nodes[k].size_bytes
                    = SumSeq(ChildSizes(run[id].l.nodes, run[id].l.nodes[k]))

(* C13 amended: in the node graph of a completed scan the size_bytes of    *)
(* each Dir node is the sum of the size_bytes of its children, stopping at *)
(* u64::MAX.                                                               *)
C13_DirSizeIsSaturatingChildSum ==
    \A id \in ScanIds :
        Completed(id)
        => \A k \in DOMAIN run[id].l.nodes :
               run[id].l.nodes[k].kind = KindDir
               => run[id].l.nodes[k].size_bytes
                    = Min(U64_MAX, SumSeq(ChildSizes(run[id].l.nodes, run[id].l.nodes[k])))

C13_Witness ==
    \E id \in ScanIds :
        /\ Completed(id)
        /\ \E k \in DOMAIN run[id].l.nodes :
              /\ k # run[id].l.root_id
              /\ run[id].l.nodes[k].kind = KindDir
              /\ Len(run[id].l.nodes[k].children) = 2
              /\ run[id].l.nodes[k].size_bytes = U64_MAX
              /\ SumSeq(ChildSizes(run[id].l.nodes, run[id].l.nodes[k])) > U64_MAX
        /\ run[id].l.nodes[run[id].l.root_id].size_bytes = U64_MAX

(* Following parent links from a node reaches the root within fuel steps. *)
RECURSIVE ReachesRoot(_, _, _)
ReachesRoot(l, k, fuel) ==
    IF k = l.root_id THEN l.nodes[k].parent = None
    ELSE IF fuel = 0 \/ ~IsSome(l.nodes[k].parent)
            \/ Unwrap(l.nodes[k].parent) \notin DOMAIN l.nodes
    THEN FALSE
    ELSE ReachesRoot(l, Unwrap(l.nodes[k].parent), fuel - 1)

(* How often a node id is in the children list of a node. *)
TimesChildOf(l, parent, k) ==
    Cardinality({ i \in 1..Len(l.nodes[parent].children) :
                    l.nodes[parent].children[i] = k })

(* The parent and child links of the node graph agree. *)
GraphLinked(l) ==
    \A k \in DOMAIN l.nodes :
        /\ l.nodes[k].id = k
        /\ k # l.root_id
           => ( /\ IsSome(l.nodes[k].parent)
                /\ Unwrap(l.nodes[k].parent) \in DOMAIN l.nodes
                /\ TimesChildOf(l, Unwrap(l.nodes[k].parent), k) = 1 )
        /\ ReachesRoot(l, k, Len(l.nodes))

(* C14: after every walker item processed by run_scan, each non-root node  *)
(* has a parent whose children list holds the node's id exactly once, and  *)
(* the parent links lead from every node to the root.                      *)
C14_ParentChildLinked ==
    \A id \in ScanIds : run[id].pc \in { "walking", "returned" } => GraphLinked(run[id].l)

C14_Witness ==
    \E id \in ScanIds :
        /\ run[id].pc = "walking"
        /\ run[id].pos > 4
        /\ \E k \in DOMAIN run[id].l.nodes :
              /\ run[id].l.nodes[k].kind = KindFile
              /\ IsSome(run[id].l.nodes[k].parent)
              /\ Unwrap(run[id].l.nodes[k].parent) # run[id].l.root_id
              /\ TimesChildOf(run[id].l, Unwrap(run[id].l.nodes[k].parent), k) = 1

(* The files a scan records, as name and length, in walk order: those it   *)
(* sees whose length can be read and is not 0.                             *)
RECURSIVE RecordedFiles(_, _, _)
RECURSIVE RecordedBelow(_, _, _, _)
RecordedFiles(entry, depth, max_depth) ==
    IF ~entry.is_dir
    THEN ( IF IsSome(entry.len) /\ Unwrap(entry.len) > 0
           THEN << [ name |-> entry.name, len |-> Unwrap(entry.len) ] >>
           ELSE << >> )
    ELSE IF NotEntered(entry, depth, max_depth) THEN << >>
    ELSE RecordedBelow(entry.entries, 1, depth + 1, max_depth)

RecordedBelow(entries, i, depth, max_depth) ==
    IF i > Len(entries) THEN << >>
    ELSE RecordedFiles(entries[i], depth, max_depth)
         \o RecordedBelow(entries, i + 1, depth, max_depth)

RecordedOf(id) == RecordedFiles(TreeOf(id), 0, run[id].options.max_depth)

(* The extension of a file name: what follows its last dot, when that dot  *)
(* is not the first character of the name.                                 *)
HasExtension(name) == \E i \in 2..Len(name) : name[i] = "."

LastDotExtension(name) ==
    SubSeq(name, 1 + CHOOSE i \in 2..Len(name) :
                       name[i] = "." /\ \A j \in (i + 1)..Len(name) : name[j] # ".",
           Len(name))

(* The key a file is accumulated under. *)
StatKey(name) ==
    IF HasExtension(name) THEN to_lowercase(LastDotExtension(name))
    ELSE << "<", "n", "o", "n", "e", ">" >>

SortedByBytes(stats) == \A i \in 1..(Len(stats) - 1) : stats[i].bytes >= stats[i + 1].bytes

KeyBytes(files, key) ==
    Min(U64_MAX, SumSeq([ k \in 1..Len(files) |->
                            IF StatKey(files[k].name) = key THEN files[k].len ELSE 0 ]))

KeyCount(files, key) ==
    Cardinality({ k \in 1..Len(files) : StatKey(files[k].name) = key })

IsPartial(ev) == ev.event = "scan://partial-tree"

IsProgress(ev) == ev.event = "scan://progress"

(* The partial-tree batches of a scan, in the order of their emission. *)
BatchesOf(id) == SelectSeq(events[id], IsPartial)

DeltaIds(deltas) == { deltas[i].id : i \in 1..Len(deltas) }

(* A batch holds at most MAX_PARTIAL_BATCH deltas in strictly ascending id *)
(* order.                                                                  *)
BatchBoundedAscending(deltas) ==
    /\ Len(deltas) <= MAX_PARTIAL_BATCH
    /\ \A i \in 1..(Len(deltas) - 1) : deltas[i].id < deltas[i + 1].id

(* What emit_partial_batch gave for a change set: the ids it emitted and   *)
(* the ids it left are the change set, split in two, and ids are left only *)
(* behind a full batch.                                                    *)
BatchLossless(changed_nodes, out) ==
    /\ out.ret
    /\ BatchBoundedAscending(out.emitted[1].nodes)
    /\ DeltaIds(out.emitted[1].nodes) \cup out.changed_nodes = changed_nodes
    /\ DeltaIds(out.emitted[1].nodes) \cap out.changed_nodes = {}
    /\ out.changed_nodes # {} => Len(out.emitted[1].nodes) = MAX_PARTIAL_BATCH
    /\ \A k \in out.changed_nodes : \A j \in DeltaIds(out.emitted[1].nodes) : j < k

(* emit_partial_batch on the change set of a run as it stands, and on the  *)
(* change set the drain starts from, every node.                           *)
EmitsLossless(l) ==
    /\ l.changed_nodes # {}
       => BatchLossless(l.changed_nodes,
                        emit_partial_batch(TRUE, 0, l.nodes, l.changed_nodes, l.now))
    /\ BatchLossless(DOMAIN l.nodes,
                     emit_partial_batch(TRUE, 0, l.nodes, DOMAIN l.nodes, l.now))

(* A node is in a batch with the size it has in the node graph. *)
Delivered(id, k) ==
    \E b \in 1..Len(BatchesOf(id)) :
        \E i \in 1..Len(BatchesOf(id)[b].nodes) :
            /\ BatchesOf(id)[b].nodes[i].id = k
            /\ BatchesOf(id)[b].nodes[i].size_bytes = run[id].l.nodes[k].size_bytes

(* C16: every scan://partial-tree batch carries at most MAX_PARTIAL_BATCH  *)
(* deltas in strictly ascending NodeId order, a changed id that is not in  *)
(* the batch stays in the change set, and so a completed scan with a sink  *)
(* has delivered every node and left no changed id behind.                 *)
C16_BatchesBoundedAscendingLossless ==
    \A id \in ScanIds :
        /\ \A b \in 1..Len(BatchesOf(id)) : BatchBoundedAscending(BatchesOf(id)[b].nodes)
        /\ run[id].pc \in { "walking", "returned" } => EmitsLossless(run[id].l)
        /\ ( Completed(id) /\ run[id].sink )
           => ( /\ run[id].l.changed_nodes = {}
                /\ \A k \in DOMAIN run[id].l.nodes : Delivered(id, k) )

C16_Witness ==
    \E id \in ScanIds :
        /\ run[id].pc = "walking"
        /\ Len(events[id]) > 0
        /\ IsPartial(events[id][Len(events[id])])
        /\ Len(events[id][Len(events[id])].nodes) = MAX_PARTIAL_BATCH
        /\ run[id].l.last_partial_emit = run[id].l.now
        /\ Cardinality(run[id].l.changed_nodes) >= 2

(* The parent of a delta is in the same batch at a lower index or in an    *)
(* earlier batch.                                                          *)
ParentFirst(batches, b, i) ==
    IsSome(batches[b].nodes[i].parent)
    => \E c \in 1..b : \E j \in 1..Len(batches[c].nodes) :
           /\ batches[c].nodes[j].id = Unwrap(batches[b].nodes[i].parent)
           /\ c = b => j < i

(* C17: across the partial-tree batches of a scan, the parent of a delta   *)
(* is in the same batch at a lower index or in an earlier batch.           *)
C17_ParentBeforeChild ==
    \A id \in ScanIds :
        \A b \in 1..Len(BatchesOf(id)) :
            \A i \in 1..Len(BatchesOf(id)[b].nodes) : ParentFirst(BatchesOf(id), b, i)

C17_Witness ==
    \E id \in ScanIds :
        /\ run[id].sink
        /\ \E b \in 2..Len(BatchesOf(id)) :
              \E i \in 1..Len(BatchesOf(id)[b].nodes) :
                  /\ IsSome(BatchesOf(id)[b].nodes[i].parent)
                  /\ Unwrap(BatchesOf(id)[b].nodes[i].parent) # run[id].l.root_id
                  /\ Unwrap(BatchesOf(id)[b].nodes[i].parent)
                       \notin DeltaIds(BatchesOf(id)[b].nodes)
                  /\ \E c \in 1..(b - 1) :
                        Unwrap(BatchesOf(id)[b].nodes[i].parent)
                          \in DeltaIds(BatchesOf(id)[c].nodes)

(* Consecutive emissions of a list are at least interval ticks apart. *)
Spaced(times, interval) ==
    \A i \in 1..(Len(times) - 1) : times[i + 1] - times[i] >= interval

ProgressTimes(id) ==
    [ i \in 1..Len(SelectSeq(events[id], IsProgress)) |->
        SelectSeq(events[id], IsProgress)[i].at ]

PartialTimes(id) ==
    [ i \in 1..Len(BatchesOf(id)) |-> BatchesOf(id)[i].updated_at ]

(* C18 as stated: over the whole run of a scan, consecutive scan://progress *)
(* emissions are PROGRESS_INTERVAL apart or more and consecutive            *)
(* scan://partial-tree emissions PARTIAL_INTERVAL apart or more.            *)
C18_EmissionsSpaced ==
    \A id \in ScanIds :
        /\ Spaced(ProgressTimes(id), PROGRESS_INTERVAL)
        /\ Spaced(PartialTimes(id), PARTIAL_INTERVAL)

(* C18 amended: while the walk of a scan lasts, consecutive scan://progress *)
(* emissions are PROGRESS_INTERVAL apart or more and consecutive            *)
(* scan://partial-tree emissions PARTIAL_INTERVAL apart or more; the first  *)
(* of each comes that long after run_scan began.                            *)
C18_WalkEmissionsSpaced ==
    \A id \in ScanIds :
        run[id].pc = "walking"
        => /\ Spaced(<< 0 >> \o ProgressTimes(id), PROGRESS_INTERVAL)
           /\ Spaced(<< 0 >> \o PartialTimes(id), PARTIAL_INTERVAL)

C18_Witness ==
    \E id \in ScanIds :
        /\ run[id].pc = "walking"
        /\ Len(ProgressTimes(id)) = 2
        /\ ProgressTimes(id)[2] - ProgressTimes(id)[1] = PROGRESS_INTERVAL
        /\ Len(PartialTimes(id)) = 1
        /\ run[id].l.now - PartialTimes(id)[1] < PARTIAL_INTERVAL

(***************************************************************************)
(* get_safety_level called on its own                                      *)
(***************************************************************************)
P_cmd_exe ==
    << "C",":","\\","W","i","n","d","o","w","s","\\","S","y","s","t","e","m","3","2",
       "\\","c","m","d",".","e","x","e" >>

P_system32 ==
    << "C",":","\\","W","i","n","d","o","w","s","\\","S","y","s","t","e","m","3","2" >>

P_mystery == << "/","t","/","m","y","s","t","e","r","y" >>

P_t_thumbs == << "/","t","/","T","h","u","m","b","s",".","d","b" >>

P_boot_tmp == << "/","b","o","o","t","/","a",".","t","m","p" >>

(* The paths get_safety_level is called on. *)
ClassifyPaths ==
    { P_cmd_exe, P_system32, P_mystery, P_t_dist, P_t_a, P_boot, P_t_thumbs, P_boot_tmp }

(* fs::Metadata as the heuristic reads it: len() and modified(). *)
Metadata(len, modified) == [ len |-> len, modified |-> modified ]

(* What path.metadata() can answer: an error, or a length on either side   *)
(* of HEURISTIC_SIZE with a modification time.                             *)
MetadataValues ==
    { None } \cup { Some(Metadata(len, modified)) :
                      len \in { HEURISTIC_SIZE, HEURISTIC_SIZE + 1 },
                      modified \in 0..(MaxClock - 1) }

(* delete.rs 211-217: what the heuristic makes of the metadata at the      *)
(* clock reading now: duration_since fails for a modification time in the  *)
(* future, and then the file is not taken for old.                         *)
heuristic_meta(metadata, now) ==
    IF IsSome(metadata)
    THEN Some([ large |-> Unwrap(metadata).len > HEURISTIC_SIZE,
                old |-> /\ now >= Unwrap(metadata).modified
                        /\ now - Unwrap(metadata).modified > HEURISTIC_AGE ])
    ELSE None

(* The calls of get_safety_level: the path, what the file system answers   *)
(* to is_dir() and metadata(), and the clock.  A path without metadata is  *)
(* not a directory.                                                        *)
ClassifyCalls ==
    { c \in [ path : ClassifyPaths, is_dir : BOOLEAN, metadata : MetadataValues,
              now : 1..MaxClock ] : c.is_dir => IsSome(c.metadata) }

(* get_safety_level on every such call, computed once. *)
ClassifyTable ==
    [ plat \in Platforms |-> [ c \in ClassifyCalls |->
        get_safety_level(c.path, c.is_dir, heuristic_meta(c.metadata, c.now), plat) ] ]

Classified(c, earlier) ==
    [ cmd |-> "get_safety_level", call |-> c, ret |-> ClassifyTable[platform][c],
      earlier |-> earlier ]

(* A caller inside the crate invokes get_safety_level. *)
CallGetSafetyLevel(c) ==
    /\ reply = NoReply
    /\ reply' = Classified(c, None)
    /\ UNCHANGED deleteVars
    /\ UNCHANGED scanVars

(* And invokes it once more, the file system and the clock being what they *)
(* are by then.                                                            *)
CallGetSafetyLevelAgain(c) ==
    /\ reply # NoReply
    /\ reply.earlier = None
    /\ reply' = Classified(c, Some([ call |-> reply.call, ret |-> reply.ret ]))
    /\ UNCHANGED deleteVars
    /\ UNCHANGED scanVars

InitClassify ==
    /\ fs = FsPaths
    /\ fs_before = FsPaths
    /\ platform \in Platforms
    /\ trash_ok = TRUE
    /\ locked = {}
    /\ delete_events = << >>
    /\ reply = NoReply
    /\ ScanIdle

NextClassify ==
    \/ \E c \in ClassifyCalls : CallGetSafetyLevel(c)
    \/ \E c \in ClassifyCalls : CallGetSafetyLevelAgain(c)

SpecClassify == InitClassify /\ [][NextClassify]_vars

(***************************************************************************)
(* Properties of the classifier                                            *)
(***************************************************************************)
IsClassified == reply # NoReply /\ reply.cmd = "get_safety_level"

(* C19: two calls of get_safety_level with the same path string and the    *)
(* same is_dir answer return the same SafetyLevel, whatever the length,    *)
(* the modification time and the clock reading of either call.             *)
C19_SameLevelForSamePathAndKind ==
    ( /\ IsClassified
      /\ IsSome(reply.earlier)
      /\ Unwrap(reply.earlier).call.path = reply.call.path
      /\ Unwrap(reply.earlier).call.is_dir = reply.call.is_dir )
    => Unwrap(reply.earlier).ret = reply.ret

C19_Witness ==
    /\ IsClassified
    /\ IsSome(reply.earlier)
    /\ reply.call.path = P_mystery
    /\ Unwrap(reply.earlier).call.path = P_mystery
    /\ ~reply.call.is_dir
    /\ ~Unwrap(reply.earlier).call.is_dir
    /\ heuristic_meta(reply.call.metadata, reply.call.now)
         = Some([ large |-> TRUE, old |-> TRUE ])
    /\ heuristic_meta(Unwrap(reply.earlier).call.metadata, Unwrap(reply.earlier).call.now)
         = Some([ large |-> FALSE, old |-> FALSE ])
    /\ reply.call.now # Unwrap(reply.earlier).call.now
    /\ Unwrap(reply.earlier).ret = reply.ret

(* C20 as stated: get_safety_level on C:\Windows\System32\cmd.exe returns  *)
(* Protected.                                                              *)
C20_CmdExeIsProtected ==
    ( IsClassified /\ reply.call.path = P_cmd_exe ) => reply.ret = Protected

(* C20 amended: get_safety_level on C:\Windows\System32\cmd.exe returns    *)
(* ConfirmRequired, the path having four pieces, and returns Protected on  *)
(* C:\Windows\System32, which has three.                                   *)
C20_CmdExeIsConfirmRequired ==
    IsClassified
    => /\ reply.call.path = P_cmd_exe => reply.ret = ConfirmRequired
       /\ reply.call.path = P_system32 => reply.ret = Protected

C20_Witness ==
    /\ IsClassified
    /\ platform = "windows"
    /\ reply.call.path = P_cmd_exe
    /\ ~reply.call.is_dir
    /\ reply.ret = ConfirmRequired
    /\ IsSome(reply.earlier)
    /\ Unwrap(reply.earlier).call.path = P_system32
    /\ Unwrap(reply.earlier).ret = Protected

(***************************************************************************)
(* The order of the classifier's rules                                     *)
(***************************************************************************)
NameLower(c, plat) ==
    IF IsSome(file_name(c.path, plat))
    THEN Some(to_lowercase(Unwrap(file_name(c.path, plat)))) ELSE None

ExtLower(c, plat) ==
    IF IsSome(extension(c.path, plat))
    THEN Some(to_lowercase(Unwrap(extension(c.path, plat)))) ELSE None

(* The rules of get_safety_level in their order, each with what matches it *)
(* and the level it gives; the last one is the default.                    *)
SafetyRules(c, plat) ==
    << [ matches |-> is_protected_path(c.path), level |-> Protected ],
       [ matches |-> IsSome(NameLower(c, plat))
                     /\ Unwrap(NameLower(c, plat)) \in AUTO_DELETE_NAMES,
         level |-> AutoDelete ],
       [ matches |-> c.is_dir /\ IsSome(NameLower(c, plat))
                     /\ Unwrap(NameLower(c, plat)) \in AUTO_DELETE_FOLDERS,
         level |-> AutoDelete ],
       [ matches |-> IsSome(ExtLower(c, plat))
                     /\ Unwrap(ExtLower(c, plat)) \in AUTO_DELETE_EXTENSIONS,
         level |-> AutoDelete ],
       [ matches |-> IsSome(ExtLower(c, plat))
                     /\ Unwrap(ExtLower(c, plat)) \in IMPORTANT_EXTENSIONS,
         level |-> ConfirmRequired ],
       [ matches |-> TRUE, level |-> ConfirmRequired ] >>

FirstMatch(rules) ==
    CHOOSE i \in 1..Len(rules) : rules[i].matches /\ \A j \in 1..(i - 1) : ~rules[j].matches

(* What the rules say of a call: which of them match and the level of the  *)
(* first that does.                                                        *)
RuleVerdict(c, plat, rules) ==
    [ call |-> c, plat |-> plat,
      matches |-> [ i \in 1..Len(rules) |-> rules[i].matches ],
      level |-> rules[FirstMatch(rules)].level ]

(* The verdicts on every call, computed once. *)
RuleVerdicts ==
    { RuleVerdict(c, plat, SafetyRules(c, plat)) : c \in ClassifyCalls, plat \in Platforms }

VerdictOn(c) == CHOOSE v \in RuleVerdicts : v.call = c /\ v.plat = platform

(* C21: get_safety_level returns the level of the first rule that matches, *)
(* the rules taken in the order protected path, auto-delete name,          *)
(* auto-delete folder (directories only), auto-delete extension, important *)
(* extension, default.                                                     *)
C21_FirstMatchingRuleWins ==
    IsClassified => reply.ret = VerdictOn(reply.call).level

(* A protected path with an auto-delete extension was classified, and then *)
(* a file whose name is an auto-delete name and whose extension is an      *)
(* important one.                                                          *)
C21_Witness ==
    /\ IsClassified
    /\ IsSome(reply.earlier)
    /\ Unwrap(reply.earlier).call.path = P_boot_tmp
    /\ VerdictOn(Unwrap(reply.earlier).call).matches[1]
    /\ VerdictOn(Unwrap(reply.earlier).call).matches[4]
    /\ Unwrap(reply.earlier).ret = Protected
    /\ reply.call.path = P_t_thumbs
    /\ VerdictOn(reply.call).matches[2]
    /\ VerdictOn(reply.call).matches[5]
    /\ reply.ret = AutoDelete

(***************************************************************************)
(* The aggregate result of bulk_smart_delete                               *)
(***************************************************************************)
IsBulkReply == reply # NoReply /\ reply.cmd = "bulk_smart_delete"

(* The disk before and after the i-th path of the last bulk request. *)
BulkDiskAt(i) == BulkAfter(reply.paths, i, reply.force, fs_before).disk

(* The i-th path of the last bulk request was there before its iteration   *)
(* and is gone after it.                                                   *)
BulkDeleted(i) ==
    /\ reply.paths[i] \in BulkDiskAt(i - 1)
    /\ reply.paths[i] \notin BulkDiskAt(i)

(* C22: the aggregate DeleteResult of bulk_smart_delete has was_auto_delete *)
(* only if every path that was actually deleted was classified AutoDelete,  *)
(* and has success exactly when its errors list is empty.                   *)
C22_BulkAggregateFlags ==
    IsBulkReply
    => /\ reply.ret.success <=> reply.ret.errors = << >>
       /\ reply.ret.was_auto_delete
          => \A i \in 1..Len(reply.paths) :
                 BulkDeleted(i)
                 => safety_level_on(reply.paths[i], BulkDiskAt(i - 1)) = AutoDelete

(* A request that skipped a protected path and deleted an auto-delete one. *)
C22_Witness ==
    /\ IsBulkReply
    /\ reply.ret.was_auto_delete
    /\ ~reply.ret.success
    /\ reply.ret.errors # << >>
    /\ \E i \in 1..Len(reply.paths) :
          BulkDeleted(i) /\ safety_level_on(reply.paths[i], BulkDiskAt(i - 1)) = AutoDelete

(***************************************************************************)
(* A directory deleted in part                                             *)
(***************************************************************************)
(* What the last delete command removed from the disk. *)
Removed == fs_before \ fs

RemovedFiles == { p \in Removed : ~FsTree[p].is_dir }

RemovedDirs == { p \in Removed : FsTree[p].is_dir }

RECURSIVE BytesOf(_)
BytesOf(paths) ==
    IF paths = {} THEN 0
    ELSE FsTree[CHOOSE p \in paths : TRUE].size
         + BytesOf(paths \ { CHOOSE p \in paths : TRUE })

(* The last command was smart_delete_file on a directory, it removed some  *)
(* of the entries below it and the directory is still there.               *)
DeletedInPart ==
    /\ reply # NoReply
    /\ reply.cmd = "smart_delete_file"
    /\ path_is_dir(reply.path, fs_before)
    /\ reply.path \in fs
    /\ Removed # {}

(* C23: when deleting a directory removes some children and then fails on  *)
(* another entry, the DeleteResult has success false with the error        *)
(* listed, and its bytes_freed, files_deleted and folders_deleted are the  *)
(* bytes and the counts of the entries that were removed.                  *)
C23_PartialFailureCountsRemoved ==
    DeletedInPart
    => /\ reply.ret.ok
       /\ ~reply.ret.result.success
       /\ reply.ret.result.errors # << >>
       /\ reply.ret.result.bytes_freed = BytesOf(RemovedFiles)
       /\ reply.ret.result.files_deleted = Cardinality(RemovedFiles)
       /\ reply.ret.result.folders_deleted = Cardinality(RemovedDirs)

(***************************************************************************)
(* Errors of the walker                                                    *)
(***************************************************************************)
IsErrorOn(ev, path) == ev.event = "scan://error" /\ ev.path = Some(path)

(* The walker items of a scan that its loop has been through. *)
WalkedItems(id) ==
    IF run[id].pc = "walking" THEN SubSeq(WalkOf(run[id]), 1, run[id].pos - 1) ELSE << >>

(* C24: every error the walker yields during a scan with a sink is emitted *)
(* as a scan://error event whose path is the path of the offending entry.  *)
C24_WalkerErrorCarriesPath ==
    \A id \in ScanIds :
        run[id].sink
        => \A k \in 1..Len(WalkedItems(id)) :
               ~WalkedItems(id)[k].ok
               => \E i \in 1..Len(events[id]) :
                      IsErrorOn(events[id][i], WalkedItems(id)[k].path)

(***************************************************************************)
(* cancel_scan and the registry                                            *)
(***************************************************************************)
(* A step in which cancel_scan is called: the command returns and no       *)
(* worker moves.                                                           *)
CancelScanReturns == reply'.cmd = "cancel_scan" /\ run' = run /\ events' = events

(* C25: cancel_scan(id) returns true exactly when id has an active entry   *)
(* at the call, and then sets the cancel flag of that entry and no other;  *)
(* for an id without an active entry it returns false and leaves every     *)
(* cancel flag as it was; it never changes either registry map.            *)
C25_CancelScanFrame ==
    [][ CancelScanReturns
        => /\ reply'.ret = (reply'.scan_id \in active_scans)
           /\ reply'.ret => cancel_flag' = [ cancel_flag EXCEPT ![reply'.scan_id] = TRUE ]
           /\ ~reply'.ret => cancel_flag' = cancel_flag
           /\ active_scans' = active_scans
           /\ results' = results ]_vars

(* cancel_scan answered false for a scan that had finished, whose result   *)
(* is stored and whose flag was never set.                                 *)
C25_Witness ==
    /\ reply # NoReply
    /\ reply.cmd = "cancel_scan"
    /\ ~reply.ret
    /\ run[reply.scan_id].pc = "done"
    /\ reply.scan_id \in DOMAIN results
    /\ reply.scan_id \notin active_scans
    /\ ~cancel_flag[reply.scan_id]

(***************************************************************************)
(* A scan of a root that does not exist                                    *)
(***************************************************************************)
EventsNamed(id, name) == SelectSeq(events[id], LAMBDA ev : ev.event = name)

(* The scan was submitted through start_scan on a root that is not there. *)
SubmittedOnMissingRoot(id) ==
    /\ run[id].pc # "idle"
    /\ run[id].caller = "worker"
    /\ ~RootExists(id)

(* C26: a scan submitted on a root path that does not exist ends as        *)
(* Failed: one scan://error event with the root path follows               *)
(* scan://started, the active entry is removed, no result is stored, and   *)
(* no scan://progress, scan://partial-tree or scan://finished event is     *)
(* ever emitted.                                                           *)
C26_MissingRootFails ==
    \A id \in ScanIds :
        SubmittedOnMissingRoot(id)
        => /\ EventsNamed(id, "scan://progress") = << >>
           /\ EventsNamed(id, "scan://partial-tree") = << >>
           /\ EventsNamed(id, "scan://finished") = << >>
           /\ id \notin DOMAIN results
           /\ events[id][1].event = "scan://started"
           /\ Len(EventsNamed(id, "scan://error")) <= 1
           /\ run[id].pc = "done"
              => /\ run[id].outcome = OutcomeFailed
                 /\ id \notin active_scans
                 /\ Len(events[id]) = 2
                 /\ events[id][2].event = "scan://error"
                 /\ events[id][2].path = Some(run[id].root_path)

C26_Witness ==
    \E id \in ScanIds :
        /\ SubmittedOnMissingRoot(id)
        /\ run[id].pc = "done"
        /\ run[id].outcome = OutcomeFailed
        /\ Len(EventsNamed(id, "scan://error")) = 1
        /\ id \notin active_scans

(***************************************************************************)
(* Node ids                                                                *)
(***************************************************************************)
(* run_scan has its locals: it is in its loop or has returned from it. *)
HasLocals(id) == run[id].root # << >> /\ run[id].pc \in { "walking", "returned", "done" }

(* The ids handed out so far, one per path of the path map. *)
AllocatedIds(l) == { l.path_map[p] : p \in DOMAIN l.path_map }

(* The walker items gone through whose path has a node, in walk order. *)
WalkedWithNode(id) ==
    SelectSeq(WalkedItems(id), LAMBDA item : item.ok /\ item.path \in DOMAIN run[id].l.path_map)

(* C27: within one scan every allocated NodeId is distinct, a node         *)
(* allocated later has a strictly larger id than every node allocated      *)
(* earlier, and 0 is never a node's id: the root has the smallest id.      *)
C27_NodeIdsUniqueIncreasing ==
    \A id \in ScanIds :
        HasLocals(id)
        => /\ \A p, q \in DOMAIN run[id].l.path_map :
                  p # q => run[id].l.path_map[p] # run[id].l.path_map[q]
           /\ AllocatedIds(run[id].l) = DOMAIN run[id].l.nodes
           /\ \A k \in DOMAIN run[id].l.nodes : run[id].l.nodes[k].id = k
           /\ 0 \notin AllocatedIds(run[id].l)
           /\ \A k \in AllocatedIds(run[id].l) :
                  run[id].l.root_id <= k /\ k < run[id].l.node_counter
           /\ \A i, j \in 1..Len(WalkedWithNode(id)) :
                  i < j => run[id].l.path_map[WalkedWithNode(id)[i].path]
                             < run[id].l.path_map[WalkedWithNode(id)[j].path]

C27_Witness ==
    \E id \in ScanIds :
        /\ HasLocals(id)
        /\ run[id].pc = "walking"
        /\ Cardinality(AllocatedIds(run[id].l)) >= 4
        /\ Len(WalkedWithNode(id)) >= 4
        /\ run[id].l.node_counter = Cardinality(AllocatedIds(run[id].l)) + 1

(***************************************************************************)
(* Cancellation seen by the walk loop                                      *)
(***************************************************************************)
(* The events the throttle governs. *)
Throttled(evs) ==
    SelectSeq(evs, LAMBDA ev : ev.event \in { "scan://progress", "scan://partial-tree" })

(* cancel_scan first returned true while run_scan was in its walk loop. *)
CanceledInWalk(id) == cancel_when[id].pc = "walking"

(* C28: once the cancel flag is set while run_scan is in its walk loop,    *)
(* run_scan visits at most CANCEL_POLL_EVERY further entries and returns   *)
(* Canceled, from the poll of the loop or from the gate after it, and no   *)
(* scan://progress or scan://partial-tree event is emitted by the step     *)
(* that returns Canceled or after it.                                      *)
C28_CancelSeenWithinPeriod ==
    /\ [](\A id \in ScanIds :
            CanceledInWalk(id)
            => /\ run[id].l.visited_entries <= cancel_when[id].visited + CANCEL_POLL_EVERY
               /\ HasReturned(id) => run[id].outcome = OutcomeCanceled)
    /\ [][ \A id \in ScanIds :
             run'[id].outcome = OutcomeCanceled
             => Throttled(events'[id]) = Throttled(events[id]) ]_vars

(* The poll of the loop saw the flag before the walk was over, after the   *)
(* loop had gone on for some entries with the flag set.                    *)
C28_Witness ==
    \E id \in ScanIds :
        /\ CanceledInWalk(id)
        /\ run[id].pc = "returned"
        /\ run[id].outcome = OutcomeCanceled
        /\ run[id].pos <= Len(WalkOf(run[id]))
        /\ run[id].l.visited_entries = CANCEL_POLL_EVERY
        /\ run[id].l.visited_entries > cancel_when[id].visited + 1
        /\ Throttled(events[id]) # << >>

(***************************************************************************)
(* Files of length 0                                                       *)
(***************************************************************************)
(* A walker item that is a file whose length is 0 or cannot be read. *)
IsEmptyFileItem(item) ==
    item.ok /\ ~item.is_dir /\ (~IsSome(item.len) \/ Unwrap(item.len) = 0)

(* The walk loop of the scan is about to take such an item. *)
AtEmptyFile(id) ==
    /\ run[id].pc = "walking"
    /\ run[id].pos <= Len(WalkOf(run[id]))
    /\ IsEmptyFileItem(WalkOf(run[id])[run[id].pos])

(* What the claim says a file of length 0 leaves alone. *)
Recorded(l) ==
    << l.nodes, l.path_map, l.changed_nodes, l.total_files, l.total_dirs,
       l.visited_bytes_approx, l.extension_stats >>

(* The step of the walk loop on a file of length 0 records nothing. *)
EmptyFileStepsRecordNothing ==
    [][ \A id \in ScanIds :
          ( AtEmptyFile(id) /\ run'[id].pc \in { "walking", "returned" } )
          => Recorded(run'[id].l) = Recorded(run[id].l) ]_vars

(* The items the walk loop has been through. *)
ItemsDone(id) ==
    IF run[id].pc \in { "walking", "returned" } /\ run[id].root # << >>
    THEN SubSeq(WalkOf(run[id]), 1, run[id].pos - 1) ELSE << >>

HasNodeAt(l, path) ==
    path \in DOMAIN l.path_map \/ \E k \in DOMAIN l.nodes : l.nodes[k].path = path

(* C29 as stated: processing a walker item that is a file of length 0, or  *)
(* whose metadata cannot be read, leaves the node map, path_map, the       *)
(* change set, total_files, total_dirs, visited_bytes_approx and the       *)
(* extension stats unchanged, and such a file has no node in the graph.    *)
C29_EmptyFileLeavesNoTrace ==
    /\ EmptyFileStepsRecordNothing
    /\ [](\A id \in ScanIds :
            \A k \in 1..Len(ItemsDone(id)) :
                IsEmptyFileItem(ItemsDone(id)[k])
                => ~HasNodeAt(run[id].l, ItemsDone(id)[k].path))

(* C29 amended: the same, and such a file has no node in the graph unless  *)
(* it is the root of the scan, whose node is made before the walk.         *)
C29_EmptyFileBelowRootLeavesNoTrace ==
    /\ EmptyFileStepsRecordNothing
    /\ [](\A id \in ScanIds :
            \A k \in 1..Len(ItemsDone(id)) :
                ( IsEmptyFileItem(ItemsDone(id)[k]) /\ ItemsDone(id)[k].path # run[id].root )
                => ~HasNodeAt(run[id].l, ItemsDone(id)[k].path))

(* The loop has been through a file of length 0 and a file whose metadata *)
(* cannot be read, both below the root, and has recorded other files.     *)
C29_Witness ==
    \E id \in ScanIds :
        /\ run[id].pc = "walking"
        /\ \E k \in 1..Len(ItemsDone(id)) :
              /\ ItemsDone(id)[k].ok
              /\ ItemsDone(id)[k].len = Some(0)
              /\ ~ItemsDone(id)[k].is_dir
              /\ ItemsDone(id)[k].path # run[id].root
        /\ \E k \in 1..Len(ItemsDone(id)) :
              /\ ItemsDone(id)[k].ok
              /\ ~ItemsDone(id)[k].is_dir
              /\ ItemsDone(id)[k].len = None
        /\ run[id].l.total_files >= 1

(***************************************************************************)
(* The drain before the return                                             *)
(***************************************************************************)
(* run_scan with a sink returns a ScanResult in this step. *)
ReturnsResult(id) ==
    /\ run[id].pc = "walking"
    /\ run[id].sink
    /\ run'[id].pc = "returned"
    /\ run'[id].outcome = OutcomeOk

(* The events the step emits. *)
EmittedInStep(id) == SubSeq(events'[id], Len(events[id]) + 1, Len(events'[id]))

(* The batch carries the node with the size it has in the returned graph. *)
CarriesFinal(ev, node) ==
    /\ ev.event = "scan://partial-tree"
    /\ \E j \in 1..Len(ev.nodes) :
          ev.nodes[j].id = node.id /\ ev.nodes[j].size_bytes = node.size_bytes

(* C30: when run_scan with a sink returns a ScanResult, the change set is  *)
(* empty and what it emitted from the size recompute on is a run of        *)
(* scan://partial-tree batches in which every node of the graph occurs     *)
(* with its final size_bytes, followed by the "finalizing" progress event, *)
(* the last event of run_scan.                                             *)
C30_DrainBeforeFinalizing ==
    [][ \A id \in ScanIds :
          ReturnsResult(id) =>
            /\ IsSome(run'[id].result)
            /\ run'[id].l.changed_nodes = {}
            /\ Len(EmittedInStep(id)) >= 2
            /\ EmittedInStep(id)[Len(EmittedInStep(id))].event = "scan://progress"
            /\ EmittedInStep(id)[Len(EmittedInStep(id))].phase = "finalizing"
            /\ \A i \in 1..(Len(EmittedInStep(id)) - 1) :
                  /\ EmittedInStep(id)[i].event = "scan://partial-tree"
                  /\ EmittedInStep(id)[i].nodes # << >>
            /\ \A k \in DOMAIN run'[id].l.nodes :
                  \E i \in 1..(Len(EmittedInStep(id)) - 1) :
                      CarriesFinal(EmittedInStep(id)[i], run'[id].l.nodes[k]) ]_vars

(* run_scan with a sink returned a result over more nodes than one batch   *)
(* holds, after a batch of the walk that carried a size that was not final *)
(* yet; the last event is the "finalizing" progress.                       *)
C30_Witness ==
    \E id \in ScanIds :
        /\ run[id].pc = "returned"
        /\ run[id].outcome = OutcomeOk
        /\ run[id].sink
        /\ Len(run[id].l.nodes) > MAX_PARTIAL_BATCH
        /\ run[id].l.changed_nodes = {}
        /\ events[id] # << >>
        /\ events[id][Len(events[id])].event = "scan://progress"
        /\ events[id][Len(events[id])].phase = "finalizing"
        /\ \E i \in 1..Len(events[id]) :
              /\ events[id][i].event = "scan://partial-tree"
              /\ \E j \in 1..Len(events[id][i].nodes) :
                    events[id][i].nodes[j].size_bytes #
                        run[id].l.nodes[events[id][i].nodes[j].id].size_bytes

(***************************************************************************)
(* Directory items                                                         *)
(***************************************************************************)
(* The walk loop processes a directory item in this step. *)
ProcessesDir(id) ==
    /\ run[id].pc = "walking"
    /\ run[id].pos <= Len(WalkOf(run[id]))
    /\ WalkOf(run[id])[run[id].pos].ok
    /\ WalkOf(run[id])[run[id].pos].is_dir
    /\ run'[id].pc = "walking"
    /\ run'[id].pos = run[id].pos + 1

(* The path of the item has a node before the step. *)
DirHadNode(id) ==
    to_string_lossy(WalkOf(run[id])[run[id].pos].path) \in DOMAIN run[id].l.path_map

DirIsRoot(id) == WalkOf(run[id])[run[id].pos].path = run[id].root

ChildrenLists(l) == [ k \in DOMAIN l.nodes |-> l.nodes[k].children ]

(* C31: when run_scan processes a directory item, total_dirs grows by one  *)
(* and a children list grows only if the item made a new Dir node that is  *)
(* not the root; an item whose path already has a node changes neither     *)
(* total_dirs nor any children list.                                       *)
C31_DirCountedOnlyWhenNew ==
    [][ \A id \in ScanIds :
          ProcessesDir(id) =>
            /\ run'[id].l.total_dirs =
                   run[id].l.total_dirs
                   + ( IF ~DirHadNode(id) /\ ~DirIsRoot(id) THEN 1 ELSE 0 )
            /\ DirHadNode(id) =>
                   ChildrenLists(run'[id].l) = ChildrenLists(run[id].l) ]_vars

(***************************************************************************)
(* Deleting or scanning: the two sweeps of the program                     *)
(***************************************************************************)
(* The root run_scan is called on after the delete commands: a tree with   *)
(* an unlistable directory before a file.                                  *)
SweepRoots == { << N_e >> }

(* The front-end deletes, then run_scan is called: the delete commands run *)
(* while no scan has been started.                                         *)
NextSweeps ==
    \/ /\ \A id \in ScanIds : run[id].pc = "idle"
       /\ NextDelete
    \/ /\ platform = "unix" /\ trash_ok /\ locked = {}
       /\ \/ \E id \in ScanIds, root_path \in SweepRoots, options \in ScanOptionsSet,
                flag \in BOOLEAN, sink \in BOOLEAN :
               CallRunScan(id, root_path, options, flag, sink)
          \/ \E id \in ScanIds : RunScanWalk(id)
          \/ \E id \in ScanIds : RunScanGate(id)
          \/ \E id \in ScanIds : TakeResult(id)

SpecSweeps == InitDelete /\ [][NextSweeps]_vars

(* The walk loop is at an error of the walker and its poll of the cancel   *)
(* flag does not end the scan.                                             *)
AtWalkerError(id) ==
    /\ run[id].pc = "walking"
    /\ run[id].pos <= Len(WalkOf(run[id]))
    /\ ~WalkOf(run[id])[run[id].pos].ok
    /\ ~(cancel_poll_due(run[id].l.visited_entries) /\ cancel_flag[id])

(* The items the walker yields after an error. *)
AfterAnError(id) ==
    { k \in 1..Len(WalkOf(run[id])) :
        \E e \in 1..(k - 1) : ~WalkOf(run[id])[e].ok }

(* The item is one run_scan keeps a node for. *)
IsRecordedItem(item) ==
    item.ok /\ ( item.is_dir \/ ( IsSome(item.len) /\ Unwrap(item.len) > 0 ) )

(* run_scan returned a result: it has been through every item, and every   *)
(* item behind an error has its node.                                      *)
WalkSweptAll(id) ==
    ( run[id].pc = "returned" /\ run[id].outcome = OutcomeOk )
    => /\ run[id].pos = Len(WalkOf(run[id])) + 1
       /\ \A k \in AfterAnError(id) :
             IsRecordedItem(WalkOf(run[id])[k])
             => to_string_lossy(WalkOf(run[id])[k].path) \in DOMAIN run[id].l.path_map

(* The result holds an error about the i-th path of the last bulk request *)
(* or about a path below it.                                               *)
BulkReported(i) ==
    \E k \in 1..Len(reply.ret.errors) :
        /\ Len(reply.ret.errors[k].path) >= Len(reply.paths[i])
        /\ SubSeq(reply.ret.errors[k].path, 1, Len(reply.paths[i])) = reply.paths[i]

(* Every path of the bulk request was dealt with: it was deleted in its    *)
(* iteration or it has an error, and there are as many errors at least as  *)
(* paths that were not deleted.                                            *)
BulkSweptAll ==
    IsBulkReply
    => /\ \A i \in 1..Len(reply.paths) : BulkDeleted(i) \/ BulkReported(i)
       /\ Len(reply.ret.errors)
            >= Cardinality({ i \in 1..Len(reply.paths) : ~BulkDeleted(i) })

(* C32: a per-item failure never aborts the enclosing sweep: after an      *)
(* error of the walker run_scan goes on with the next item and goes        *)
(* through all the remaining ones, and bulk_smart_delete deals with every  *)
(* path of its list whatever became of the paths before it.                *)
C32_ItemFailuresDoNotAbort ==
    /\ [](BulkSweptAll /\ \A id \in ScanIds : WalkSweptAll(id))
    /\ [][ \A id \in ScanIds :
             AtWalkerError(id)
             => /\ run'[id].pc = "walking"
                /\ run'[id].pos = run[id].pos + 1
                /\ run'[id].l = run[id].l ]_vars

(* run_scan returned a result over a walk with an error before a file. *)
WalkWentOn ==
    \E id \in ScanIds :
        /\ run[id].pc = "returned"
        /\ run[id].outcome = OutcomeOk
        /\ \E k \in AfterAnError(id) :
              /\ IsRecordedItem(WalkOf(run[id])[k])
              /\ ~WalkOf(run[id])[k].is_dir
        /\ run[id].l.total_files >= 1

(* A bulk request whose first path failed and whose second was deleted. *)
BulkWentOn ==
    /\ IsBulkReply
    /\ Len(reply.paths) = 2
    /\ ~BulkDeleted(1)
    /\ BulkReported(1)
    /\ BulkDeleted(2)

C32_Witness == BulkWentOn /\ WalkWentOn

(***************************************************************************)
(* finish_scan and the two maps                                            *)
(***************************************************************************)
(* The scan was submitted and run_scan returned a result for it. *)
Succeeded(id) == run[id].caller = "worker" /\ run[id].outcome = OutcomeOk

(* C33: a scan that completes successfully is at every moment in the       *)
(* active map or in the results map, whatever commands run between the     *)
(* steps of finish_scan: a cancel_scan that finds no entry comes after the *)
(* result is stored, and the step that removes the entry finds the result  *)
(* in the results map.                                                     *)
C33_NeverAbsentFromBothMaps ==
    /\ [](\A id \in ScanIds :
            Succeeded(id)
            => /\ id \in active_scans \/ id \in DOMAIN results
               /\ ( reply.cmd = "cancel_scan" /\ reply.scan_id = id /\ ~reply.ret )
                  => id \in DOMAIN results)
    /\ [][ \A id \in ScanIds :
             ( Succeeded(id) /\ id \in active_scans /\ id \notin active_scans' )
             => ( id \in DOMAIN results /\ results' = results ) ]_vars

(* get_scan_result answered between the two critical sections of           *)
(* finish_scan: the scan is in both maps.                                  *)
C33_Witness ==
    \E id \in ScanIds :
        /\ Succeeded(id)
        /\ run[id].pc = "stored"
        /\ id \in active_scans
        /\ id \in DOMAIN results
        /\ reply.cmd = "get_scan_result"
        /\ reply.scan_id = id
        /\ reply.ret = Some(results[id])

(***************************************************************************)
(* The sizes before and after recompute_dir_sizes                          *)
(***************************************************************************)
(* The walk loop has taken the last item of the walker. *)
AtEndOfWalk(id) ==
    run[id].pc = "walking" /\ run[id].pos > Len(WalkOf(run[id]))

(* The path strings of the entries the walker yielded are distinct. *)
DuplicateFree(walk) ==
    \A i, j \in 1..Len(walk) :
        ( walk[i].ok /\ walk[j].ok /\ i # j )
        => to_string_lossy(walk[i].path) # to_string_lossy(walk[j].path)

(* Every entry but the first comes after the directory that holds it. *)
PreOrder(walk) ==
    \A j \in 2..Len(walk) :
        walk[j].ok
        => \E i \in 1..(j - 1) :
               /\ walk[i].ok
               /\ walk[i].is_dir
               /\ walk[i].path = SubSeq(walk[j].path, 1, Len(walk[j].path) - 1)

SizesOf(nodes) == [ k \in DOMAIN nodes |-> nodes[k].size_bytes ]

(* C34: when the walker's stream is pre-order and duplicate-free, the      *)
(* sizes the walk loop has added up are those recompute_dir_sizes gives:   *)
(* it changes the size_bytes of no node; and a second recompute_dir_sizes  *)
(* changes nothing.                                                        *)
C34_RecomputeChangesNoSize ==
    \A id \in ScanIds :
        AtEndOfWalk(id)
        => /\ ( PreOrder(WalkOf(run[id])) /\ DuplicateFree(WalkOf(run[id])) )
              => SizesOf(recompute_dir_sizes(run[id].l.nodes)) = SizesOf(run[id].l.nodes)
           /\ recompute_dir_sizes(recompute_dir_sizes(run[id].l.nodes))
                = recompute_dir_sizes(run[id].l.nodes)

(* The same for the scans whose root is a directory. *)
RecomputeChangesNoSizeBelowDir ==
    \A id \in ScanIds :
        ( AtEndOfWalk(id) /\ WalkOf(run[id])[1].is_dir )
        => /\ ( PreOrder(WalkOf(run[id])) /\ DuplicateFree(WalkOf(run[id])) )
              => SizesOf(recompute_dir_sizes(run[id].l.nodes)) = SizesOf(run[id].l.nodes)
           /\ recompute_dir_sizes(recompute_dir_sizes(run[id].l.nodes))
                = recompute_dir_sizes(run[id].l.nodes)

(***************************************************************************)
(* The extension stats against the totals                                  *)
(***************************************************************************)
StatCounts(stats) == [ i \in 1..Len(stats) |-> stats[i].count ]

StatBytes(stats) == [ i \in 1..Len(stats) |-> stats[i].bytes ]

(* C35: in every ScanResult, whether the root is a directory or a single   *)
(* file, the counts of the extension stats add up to total_files and their *)
(* bytes add up to total_bytes.                                            *)
C35_StatsAddUpToTotals ==
    \A id \in ScanIds :
        Completed(id)
        => /\ SumSeq(StatCounts(Unwrap(run[id].result).extension_stats))
                = Unwrap(run[id].result).total_files
           /\ SumSeq(StatBytes(Unwrap(run[id].result).extension_stats))
                = Unwrap(run[id].result).total_bytes

(* The counts of the extension stats add up to total_files. *)
StatCountsAddUp ==
    \A id \in ScanIds :
        Completed(id)
        => SumSeq(StatCounts(Unwrap(run[id].result).extension_stats))
             = Unwrap(run[id].result).total_files

(* The bytes add up to total_bytes on a directory whose path strings are   *)
(* distinct and whose sums stay below u64::MAX.                            *)
StatBytesAddUpBelowDir ==
    \A id \in ScanIds :
        ( /\ Completed(id)
          /\ WalkOf(run[id])[1].is_dir
          /\ DuplicateFree(WalkOf(run[id]))
          /\ SumSeq(StatBytes(Unwrap(run[id].result).extension_stats)) < U64_MAX )
        => SumSeq(StatBytes(Unwrap(run[id].result).extension_stats))
             = Unwrap(run[id].result).total_bytes

(***************************************************************************)
(* The scan with and without a sink                                        *)
(***************************************************************************)
(* run_scan on the same root and options without a sink, with an unset     *)
(* flag and a clock that stands still, after n items of the walker.        *)
RECURSIVE SilentWalk(_, _)
SilentWalk(r, n) ==
    IF r.pc # "walking" \/ r.pos > n \/ r.pos > Len(WalkOf(r)) THEN r
    ELSE SilentWalk(run_scan_item(r, WalkOf(r)[r.pos], FALSE, 0).run, n)

SilentRun(r, n) ==
    SilentWalk(run_scan_begin(NewRun("direct", r.scan_id, r.root_path, r.options, FALSE),
                              FALSE), n)

(* What run_scan builds and counts, apart from what it keeps for emitting. *)
Built(l) ==
    [ nodes |-> l.nodes, path_map |-> l.path_map, node_counter |-> l.node_counter,
      total_files |-> l.total_files, total_dirs |-> l.total_dirs,
      extension_stats |-> l.extension_stats, root_id |-> l.root_id,
      visited_entries |-> l.visited_entries,
      visited_bytes_approx |-> l.visited_bytes_approx ]

(* The results the silent run can return: one per order of the extension   *)
(* stats of equal bytes.                                                   *)
SilentResults(r) ==
    { Unwrap(run_scan_finish(SilentRun(r, Len(WalkOf(r))), FALSE, stats).run.result) :
        stats \in sorted_extension_stats(
                      SilentRun(r, Len(WalkOf(r))).l.extension_stats) }

SilentNodes(r) == recompute_dir_sizes(SilentRun(r, Len(WalkOf(r))).l.nodes)

(* In the walk loop the scan has built what the silent run has built after *)
(* as many items.                                                          *)
SameWhileWalking(id) ==
    ( run[id].pc = "walking" /\ ~cancel_flag[id] )
    => Built(run[id].l) = Built(SilentRun(run[id], run[id].pos - 1).l)

(* C36 as stated: for the same walker stream and an unset cancel flag,     *)
(* run_scan returns the same ScanResult and builds the same node graph     *)
(* with a sink as without, whatever the clock reads at the throttle gates. *)
C36_SameResultWithOrWithoutSink ==
    \A id \in ScanIds :
        /\ SameWhileWalking(id)
        /\ ( Completed(id) /\ ~cancel_flag[id] )
           => /\ run[id].l.nodes = SilentNodes(run[id])
              /\ \A result \in SilentResults(run[id]) : Unwrap(run[id].result) = result

(* C36 amended: run_scan builds the same node graph and returns one of the *)
(* ScanResults the run without a sink can return: the same but for the     *)
(* order of the extension stats of equal bytes.                            *)
C36_SameResultUpToTies ==
    \A id \in ScanIds :
        /\ SameWhileWalking(id)
        /\ ( Completed(id) /\ ~cancel_flag[id] )
           => /\ run[id].l.nodes = SilentNodes(run[id])
              /\ Unwrap(run[id].result) \in SilentResults(run[id])

(* run_scan with a sink returned a result after it emitted a progress and  *)
(* a partial-tree event in the walk loop, on a clock that moved.           *)
C36_Witness ==
    \E id \in ScanIds :
        /\ Completed(id)
        /\ ~cancel_flag[id]
        /\ run[id].sink
        /\ run[id].l.now > 0
        /\ run[id].l.total_files >= 2
        /\ \E i \in 1..Len(events[id]) :
              events[id][i].event = "scan://progress" /\ events[id][i].phase = "walking"
        /\ \E i, j \in 1..Len(events[id]) :
              /\ i < j
              /\ events[id][i].event = "scan://partial-tree"
              /\ events[id][j].event = "scan://progress"
              /\ events[id][j].phase = "walking"

=============================================================================
